---- MODULE Spec2Model ----
(***************************************************************************)
(* Camera grid viewer (src/main.py).                                       *)
(*                                                                         *)
(* Part 1: one CaptureWorker (a QThread), the UI thread that calls its     *)
(* stop() and set_target_fps(), and the capture source it reads.           *)
(*                                                                         *)
(* Time is counted in ticks of 1/4 ms, so that every value the reconnect   *)
(* backoff takes (1 s * 1.5^k, capped at 10 s) is a whole number of ticks. *)
(* A frame rate is counted in half frames per second, so 0.5 fps is 1.     *)
(* A duration that is the inverse of a rate is kept as an exact fraction   *)
(* <<num, den>> of a second.  An Optional value is <<>> (None) or <<v>>.   *)
(***************************************************************************)
EXTENDS Integers, Sequences, FiniteSets, TLC

(* ---------------------------------------------------------------------- *)
(* Units                                                                  *)
(* ---------------------------------------------------------------------- *)
TicksPerMs == 2 * 2
TicksPerSec == 1000 * TicksPerMs
FpsDen == 2 * 1

Min(a, b) == IF a <= b THEN a ELSE b
Max(a, b) == IF a >= b THEN a ELSE b

None == <<>>
Some(v) == <<v>>

(* fractions of a second, <<num, den>> with den > 0 *)
RatEq(p, q) == p[1] * q[2] = q[1] * p[2]
RatLess(p, q) == p[1] * q[2] < q[1] * p[2]
(* a number of ticks as a fraction of a second *)
TicksAsSec(t) == <<t, TicksPerSec>>
(* 1.0 / f for a rate f > 0 given in half fps *)
Inverse(f) == <<FpsDen, f>>

(* ---------------------------------------------------------------------- *)
(* Program constants                                                      *)
(* ---------------------------------------------------------------------- *)
MAX_RECONNECT_BACKOFF_SEC == 10
BackoffMulNum == 3
BackoffMulDen == 2
BaseBackoffSec == 1
DefaultFps == 30
MinValidFps == 1
MaxValidFps == 240
StopWaitMs == 2000
ExceptionSleepMs == 200
MaxGateSleepMs == 10

(* ---------------------------------------------------------------------- *)
(* Bounds of the model                                                    *)
(* ---------------------------------------------------------------------- *)
(* calls of the UI thread and changes of the source, together, in one behaviour *)
MaxEvents == 2

(* how long a blocking backend call may take, in ms *)
SlowOpenMs == StopWaitMs + 500
SlowDecodeMs == 20
OpenLatency == {0, SlowOpenMs}
RetrieveLatency == {0, SlowDecodeMs}

(* arguments of set_target_fps, in half fps: None, 0, 0.5, 15, 40, 300 *)
FpsArgs == {None, Some(0), Some(1), Some(15 * FpsDen), Some(40 * FpsDen), Some(300 * FpsDen)}
(* target_fps handed to the constructor: None, the profile's 20 fps, or 60 fps *)
InitTargets == {None, Some(20 * FpsDen), Some(60 * FpsDen)}
(* what the backend may report for CAP_PROP_FPS: 0, 25, 500 fps *)
BackendFps == {0, 25 * FpsDen, 500 * FpsDen}

SrcStates == {"ok", "gone", "stalled", "faulty"}

(* elapsed times saturate here: no emit interval is longer than one second *)
SinceCap == TicksPerSec

VARIABLES
    running,            \* self._running
    reconnect_backoff,   \* self._reconnect_backoff, in ticks
    cap,                \* self._cap: "none", "open", or "closed" (an object that is not opened)
    sinceEmit,          \* time.monotonic() - self._last_emit, in ticks, saturating
    target_fps,          \* self._target_fps, Optional half fps
    emit_interval,       \* self._emit_interval, fraction of a second
    cached_emit_interval,     \* self._cached_emit_interval
    capFps,             \* CAP_PROP_FPS last set on the handle
    wPc,                \* position of the worker thread
    wTimer,             \* ticks the worker thread still blocks
    lcap,               \* local cap of _open_capture
    lFps,               \* local fps of _configure_fps_from_camera
    lInterval,          \* local emit_interval of run
    sinceNow,           \* ticks since run read now
    uiPc,               \* position of the UI thread
    uiArg,              \* the argument of the set_target_fps call in progress
    stopWait,           \* ticks left of self.wait(2000)
    waitTimedOut,       \* the last wait returned on timeout
    raced,              \* the worker stored an emit interval during the current set_target_fps
    stopReturns,        \* how many stop() calls have returned
    events,             \* calls and source changes so far
    src,                \* what the capture source does
    status,             \* last status_changed emitted
    fresh,              \* a frame was emitted since the source last failed
    sinceFrame,         \* ticks since frame_ready was last emitted, saturating
    callSnap,           \* <<self._target_fps, self._emit_interval>> when the call in progress was made
    \* FramePool and the threads that use it (Part 2)
    pool,               \* self._pool: the deque, oldest at the left
    lock,               \* self._lock: the thread inside a with-block, or NoThread
    bufKind,            \* the arrays allocated so far: bufKind[id] is <<shape, dtype>>
    held,               \* held[t]: the arrays thread t got and has not released
    tpc,                \* tpc[t]: position of thread t in get or release
    treq,               \* treq[t]: the <<shape, dtype>> thread t asked get for
    tframe,             \* tframe[t]: the local frame of get or release, NoBuf for None
    relOrder,           \* the arrays released and not popped or cleared since, in the order of release
    \* the rate controller and the widgets it adjusts (Part 3)
    stress_counter,     \* stress_counter: [stress, recover]
    capture_enabled,    \* capture_enabled[w]
    base_target_fps,    \* base_target_fps[w], Optional half fps
    current_target_fps, \* current_target_fps[w], Optional half fps
    worker_target_fps,  \* worker._target_fps of the worker of w, Optional half fps
    ui_render_fps,      \* ui_render_fps[w], whole fps
    camera_widgets,     \* camera_widgets: the widgets adjust_fps goes through
    ticks,              \* the verdicts of the adjust_fps ticks so far
    perf_timer,         \* perf_timer exists: adjust_fps is connected to a running timer
    missed,             \* the verdicts of the check intervals that ended with no perf_timer
    \* main: the slots, rescan_and_attach and on_sigint (Part 4)
    main_pc,            \* "startup" before the slots exist, "running", or "exited"
    dev,                \* dev[i]: /dev/video<i> is absent, works, or does not deliver frames
    devChanges,         \* changes of dev so far
    working_cameras,    \* working_cameras: what find_working_cameras returned
    clock,              \* time.monotonic(), in seconds
    rescans,            \* rescan ticks so far
    placeholder_slots,  \* placeholder_slots: the list of placeholder widgets
    camera_stream_link, \* camera_stream_link[w], Optional index
    workers_started,    \* CaptureWorkers created and started for widget w
    active_indexes,     \* active_indexes
    failed_indexes,     \* failed_indexes[i]: Optional timestamp, None for no entry
    rescan_timer,       \* rescan_timer exists
    rescan_pc,          \* position of the UI thread in rescan_and_attach
    rnow,               \* local now of rescan_and_attach
    candidates,         \* local candidates of rescan_and_attach, from the one in the loop on
    rslot,              \* local slot of rescan_and_attach
    stop_called,        \* the widgets whose worker had stop() called by cleanup
    \* find_working_cameras and kill_device_holders (Part 5)
    fwc_pc,             \* position of find_working_cameras: "idle", "pass1", "pass2", "done", "killed"
    holders,            \* holders[i]: the processes that have /dev/video<i> open
    kill_flag,          \* KILL_DEVICE_HOLDERS of the configuration
    probe_pc,           \* probe_pc[i]: position of the probe of index i in its pool thread
    working,            \* local working of find_working_cameras, in the order of completion
    final_working,      \* local final_working, in the order of completion
    returned,           \* what find_working_cameras returned
    signalled,          \* the processes that were sent SIGTERM or SIGKILL
    listed,             \* lsof or fuser was run
    kill_result,        \* kill_result[i]: what kill_device_holders returned for index i, if called
    respawns,           \* holders started again so far
    \* one call of test_single_camera or kill_device_holders (Part 6)
    call,               \* the call: its entry point, its site and its arguments
    p_pc,               \* position in the call
    p_dev,              \* state of the device probed
    p_holders,          \* the processes that have the device open
    attempts,           \* calls of try_open so far
    post_left,          \* rounds left in the loop after the kill
    opened,             \* some try_open returned True
    p_result,           \* what test_single_camera returned: "pending", "index" or "None"
    lsof_out,           \* what get_pids_from_lsof returned, if called
    fuser_out,          \* what get_pids_from_fuser returned, if called
    p_pids,             \* local pids of kill_device_holders
    p_todo,             \* the elements the running for loop has not visited yet
    sent,               \* the signals, escalations and the grace wait, in order
    killed,             \* what kill_device_holders returned, if it returned
    \* the CaptureWorker of src/test.py (Part 7)
    q_pc,               \* position of run(): "idle", "loop", "reconnect", "read"
    q_cap,              \* self._cap: "none" or "open"
    q_src,              \* state of the camera
    q_since,            \* time.time() - self.last_good_frame_time, in ticks, saturating
    q_backoff,          \* self._reconnect_backoff, in ticks
    q_status,           \* last status_changed emitted
    q_fresh,            \* the last reconnect succeeded and read() has not been called since
    q_events            \* changes of the camera so far

poolVars == <<pool, lock, bufKind, held, tpc, treq, tframe, relOrder>>
rateVars == <<stress_counter, capture_enabled, base_target_fps, current_target_fps,
              worker_target_fps, ui_render_fps, camera_widgets, ticks, perf_timer, missed>>
workerVars == <<running, reconnect_backoff, cap, sinceEmit, target_fps, emit_interval, cached_emit_interval, capFps>>
threadVars == <<wPc, wTimer, lcap, lFps, lInterval, sinceNow>>
uiVars == <<uiPc, uiArg, stopWait, waitTimedOut, raced, stopReturns>>
envVars == <<src, events, status, fresh, sinceFrame>>
captureVars == <<workerVars, threadVars, uiVars, envVars, callSnap>>
slotVars == <<main_pc, dev, devChanges, working_cameras, clock, rescans, placeholder_slots,
              camera_stream_link, workers_started, active_indexes, failed_indexes,
              rescan_timer, rescan_pc, rnow, candidates, rslot, stop_called>>
discVars == <<fwc_pc, holders, kill_flag, probe_pc, working, final_working, returned,
              signalled, listed, kill_result, respawns>>
probeVars == <<call, p_pc, p_dev, p_holders, attempts, post_left, opened, p_result,
               lsof_out, fuser_out, p_pids, p_todo, sent, killed>>
protoVars == <<q_pc, q_cap, q_src, q_since, q_backoff, q_status, q_fresh, q_events>>
vars == <<captureVars, poolVars, rateVars, slotVars, discVars, probeVars, protoVars>>

(* no call of set_target_fps is in progress *)
NoSnap == <<>>

(* ---------------------------------------------------------------------- *)
(* CaptureWorker.__init__                                                 *)
(* ---------------------------------------------------------------------- *)
WorkerInit ==
    /\ running = TRUE
    /\ reconnect_backoff = BaseBackoffSec * TicksPerSec
    /\ cap = "none"
    /\ sinceEmit = SinceCap
    /\ target_fps \in InitTargets
    /\ emit_interval = <<1, DefaultFps>>
    /\ cached_emit_interval = <<1, DefaultFps>>
    /\ capFps = 0
    /\ wPc = "created"
    /\ wTimer = 0
    /\ lcap = "none"
    /\ lFps = 0
    /\ lInterval = <<1, DefaultFps>>
    /\ sinceNow = 0
    /\ uiPc = "idle"
    /\ uiArg = None
    /\ stopWait = 0
    /\ waitTimedOut = FALSE
    /\ raced = FALSE
    /\ stopReturns = 0
    /\ events = 0
    /\ src = "ok"
    /\ status = "none"
    /\ fresh = FALSE
    /\ sinceFrame = SinceCap
    /\ callSnap = NoSnap

(* ---------------------------------------------------------------------- *)
(* Pure helpers of the worker                                             *)
(* ---------------------------------------------------------------------- *)
(* min(backoff * RECONNECT_BACKOFF_MULTIPLIER, MAX_RECONNECT_BACKOFF_SEC) *)
NextBackoffUncapped(b) == (b * BackoffMulNum) \div BackoffMulDen
NextBackoff(b) ==
    IF b * BackoffMulNum >= MAX_RECONNECT_BACKOFF_SEC * TicksPerSec * BackoffMulDen
    THEN MAX_RECONNECT_BACKOFF_SEC * TicksPerSec
    ELSE (b * BackoffMulNum) \div BackoffMulDen

(* self._target_fps and self._target_fps > 0 *)
TargetSet(t) == t # None /\ t[1] > 0

(* 1.0 / max(1.0, fps), fps in half fps *)
IntervalOf(f) == Inverse(Max(1 * FpsDen, f))

(* _configure_fps_from_camera, lines 342-345 *)
ConfiguredInterval(f) ==
    IF f <= MinValidFps * FpsDen \/ f > MaxValidFps * FpsDen
    THEN IntervalOf(DefaultFps * FpsDen)
    ELSE IntervalOf(f)

(* set_target_fps, line 358 *)
RuntimeIntervalDefaulting(f) == ConfiguredInterval(f)
RuntimeInterval(f) == IntervalOf(f)

(* set_target_fps, lines 350-355: fps is not None and float(fps) > 0 *)
ValidFpsLoose(arg) == arg # None /\ arg[1] >= 0
ValidFps(arg) == arg # None /\ arg[1] > 0

(* run, line 222: max(1, int((emit_interval - time_since_emit) * 1000) - 1), in ms *)
sleep_ms(interval, since) ==
    Max(1, ((interval[1] * TicksPerSec - since * interval[2]) \div (TicksPerMs * interval[2])) - 1)

(* run, line 223: self.msleep(min(sleep_ms, 10)), in ticks *)
GateSleep(interval, since) == Min(sleep_ms(interval, since), MaxGateSleepMs) * TicksPerMs

(* run, line 220: time_since_emit < emit_interval *)
GateClosedAlways(since, interval) == FALSE
GateClosed(since, interval) == RatLess(TicksAsSec(since), interval)

(* ---------------------------------------------------------------------- *)
(* The worker thread: CaptureWorker.run                                   *)
(* ---------------------------------------------------------------------- *)
ThreadFinished == wPc \in {"created", "done"}
InSetTargetFps == uiPc \in {"fps_interval", "fps_cache", "fps_push"}

(* except Exception: logging.exception(...); time.sleep(0.2) *)
HandleExceptionFatal == /\ wPc' = "done"
                        /\ wTimer' = 0
HandleException == /\ wPc' = "exc_sleep"
                   /\ wTimer' = ExceptionSleepMs * TicksPerMs

(* a failure handler that reports offline and keeps the handle *)
handle_capture_failure_keeps_handle ==
    /\ cap' = cap
    /\ status' = "offline"
    /\ wPc' = "loop"
    /\ wTimer' = 0
(* _handle_capture_failure: _close_capture(); status_changed.emit(False) *)
handle_capture_failure ==
    /\ cap' = "none"
    /\ status' = "offline"
    /\ wPc' = "loop"
    /\ wTimer' = 0

(* QThread.start(), called by the widget right after construction *)
start ==
    /\ wPc = "created"
    /\ running
    /\ wPc' = "loop"
    /\ UNCHANGED <<workerVars, wTimer, lcap, lFps, lInterval, sinceNow, uiVars, envVars>>
    /\ UNCHANGED <<callSnap, poolVars, rateVars, slotVars, discVars, probeVars, protoVars>>

(* while self._running: *)
LoopHead ==
    /\ wPc = "loop"
    /\ wPc' = IF running THEN "ensure" ELSE "final_close"
    /\ UNCHANGED <<workerVars, wTimer, lcap, lFps, lInterval, sinceNow, uiVars, envVars>>
    /\ UNCHANGED <<callSnap, poolVars, rateVars, slotVars, discVars, probeVars, protoVars>>

(* _ensure_capture_open lines 249-252, _open_capture line 289 is entered *)
EnsureOpen ==
    /\ wPc = "ensure"
    /\ \/ /\ cap = "open"
          /\ wPc' = "grab"
          /\ wTimer' = 0
       \/ /\ cap # "open"
          /\ wPc' = "open_wait"
          /\ \E ms \in OpenLatency : wTimer' = ms * TicksPerMs
    /\ UNCHANGED <<workerVars, lcap, lFps, lInterval, sinceNow, uiVars, envVars>>
    /\ UNCHANGED <<callSnap, poolVars, rateVars, slotVars, discVars, probeVars, protoVars>>

(* cv2.VideoCapture(...) returns; lines 291-293 and 332-333 *)
OpenReturn ==
    /\ wPc = "open_wait"
    /\ wTimer = 0
    /\ \/ /\ src \in {"ok", "stalled"}
          /\ lcap' = "open"
          /\ wPc' = "open_assign"
       \/ /\ src \in {"gone", "faulty"}
          /\ lcap' = "none"
          /\ wPc' = "ensure_check"
    /\ UNCHANGED <<workerVars, wTimer, lFps, lInterval, sinceNow, uiVars, envVars>>
    /\ UNCHANGED <<callSnap, poolVars, rateVars, slotVars, discVars, probeVars, protoVars>>

(* lines 314-321: cap.set(CAP_PROP_FPS, fps); self._cap = cap *)
OpenAssign ==
    /\ wPc = "open_assign"
    /\ capFps' = IF TargetSet(target_fps) THEN target_fps[1] ELSE 0
    /\ cap' = lcap
    /\ lcap' = "none"
    /\ wPc' = "cfg_read"
    /\ UNCHANGED <<running, reconnect_backoff, sinceEmit, target_fps, emit_interval, cached_emit_interval,
                   wTimer, lFps, lInterval, sinceNow, uiVars, envVars>>
    /\ UNCHANGED <<callSnap, poolVars, rateVars, slotVars, discVars, probeVars, protoVars>>

(* _configure_fps_from_camera lines 337-340 *)
ConfigureRead ==
    /\ wPc = "cfg_read"
    /\ \/ /\ TargetSet(target_fps)
          /\ lFps' = target_fps[1]
       \/ /\ ~TargetSet(target_fps)
          /\ cap # "none"
          /\ \E f \in BackendFps : lFps' = f
       \/ /\ ~TargetSet(target_fps)
          /\ cap = "none"
          /\ lFps' = 0
    /\ wPc' = "cfg_store"
    /\ UNCHANGED <<workerVars, wTimer, lcap, lInterval, sinceNow, uiVars, envVars>>
    /\ UNCHANGED <<callSnap, poolVars, rateVars, slotVars, discVars, probeVars, protoVars>>

(* _configure_fps_from_camera lines 342-345 *)
ConfigureStore ==
    /\ wPc = "cfg_store"
    /\ emit_interval' = ConfiguredInterval(lFps)
    /\ raced' = (raced \/ InSetTargetFps)
    /\ lFps' = 0
    /\ wPc' = "cfg_cache"
    /\ UNCHANGED <<running, reconnect_backoff, cap, sinceEmit, target_fps, cached_emit_interval, capFps,
                   wTimer, lcap, lInterval, sinceNow,
                   uiPc, uiArg, stopWait, waitTimedOut, stopReturns, envVars>>
    /\ UNCHANGED <<callSnap, poolVars, rateVars, slotVars, discVars, probeVars, protoVars>>

(* _configure_fps_from_camera line 346 *)
ConfigureCache ==
    /\ wPc = "cfg_cache"
    /\ cached_emit_interval' = emit_interval
    /\ raced' = (raced \/ InSetTargetFps)
    /\ wPc' = "ensure_check"
    /\ UNCHANGED <<running, reconnect_backoff, cap, sinceEmit, target_fps, emit_interval, capFps,
                   wTimer, lcap, lFps, lInterval, sinceNow,
                   uiPc, uiArg, stopWait, waitTimedOut, stopReturns, envVars>>
    /\ UNCHANGED <<callSnap, poolVars, rateVars, slotVars, discVars, probeVars, protoVars>>

(* _ensure_capture_open lines 253-258 *)
EnsureCheck ==
    /\ wPc = "ensure_check"
    /\ \/ /\ cap = "open"
          /\ reconnect_backoff' = BaseBackoffSec * TicksPerSec
          /\ status' = "online"
          /\ wPc' = "grab"
          /\ wTimer' = 0
       \/ /\ cap # "open"
          /\ wPc' = "backoff_sleep"
          /\ wTimer' = reconnect_backoff
          /\ UNCHANGED <<reconnect_backoff, status>>
    /\ UNCHANGED <<running, cap, sinceEmit, target_fps, emit_interval, cached_emit_interval, capFps,
                   lcap, lFps, lInterval, sinceNow, uiVars, src, events, fresh, sinceFrame>>
    /\ UNCHANGED <<callSnap, poolVars, rateVars, slotVars, discVars, probeVars, protoVars>>

(* _ensure_capture_open lines 259-263 *)
BackoffWake ==
    /\ wPc = "backoff_sleep"
    /\ wTimer = 0
    /\ reconnect_backoff' = NextBackoff(reconnect_backoff)
    /\ wPc' = "loop"
    /\ UNCHANGED <<running, cap, sinceEmit, target_fps, emit_interval, cached_emit_interval, capFps,
                   wTimer, lcap, lFps, lInterval, sinceNow, uiVars, envVars>>
    /\ UNCHANGED <<callSnap, poolVars, rateVars, slotVars, discVars, probeVars, protoVars>>

(* run lines 210-213: grabbed = self._cap.grab() *)
Grab ==
    /\ wPc = "grab"
    /\ \/ /\ cap = "none"
          /\ HandleException
          /\ UNCHANGED <<cap, status>>
       \/ /\ cap = "closed"
          /\ handle_capture_failure
       \/ /\ cap = "open"
          /\ src = "gone"
          /\ handle_capture_failure
       \/ /\ cap = "open"
          /\ src = "faulty"
          /\ HandleException
          /\ UNCHANGED <<cap, status>>
       \/ /\ cap = "open"
          /\ src = "ok"
          /\ wPc' = "gate"
          /\ wTimer' = 0
          /\ UNCHANGED <<cap, status>>
    /\ UNCHANGED <<running, reconnect_backoff, sinceEmit, target_fps, emit_interval, cached_emit_interval, capFps,
                   lcap, lFps, lInterval, sinceNow, uiVars, src, events, fresh, sinceFrame>>
    /\ UNCHANGED <<callSnap, poolVars, rateVars, slotVars, discVars, probeVars, protoVars>>

(* run lines 216-224: the rate gate *)
Gate ==
    /\ wPc = "gate"
    /\ \/ /\ GateClosed(sinceEmit, cached_emit_interval)
          /\ wPc' = "gate_sleep"
          /\ wTimer' = GateSleep(cached_emit_interval, sinceEmit)
          /\ UNCHANGED <<lInterval, sinceNow>>
       \/ /\ ~GateClosed(sinceEmit, cached_emit_interval)
          /\ lInterval' = cached_emit_interval
          /\ sinceNow' = 0
          /\ wPc' = "retrieve_wait"
          /\ \E ms \in RetrieveLatency : wTimer' = ms * TicksPerMs
    /\ UNCHANGED <<workerVars, lcap, lFps, uiVars, envVars>>
    /\ UNCHANGED <<callSnap, poolVars, rateVars, slotVars, discVars, probeVars, protoVars>>

(* self.msleep(...) returns; continue *)
GateWake ==
    /\ wPc = "gate_sleep"
    /\ wTimer = 0
    /\ wPc' = "loop"
    /\ UNCHANGED <<workerVars, wTimer, lcap, lFps, lInterval, sinceNow, uiVars, envVars>>
    /\ UNCHANGED <<callSnap, poolVars, rateVars, slotVars, discVars, probeVars, protoVars>>

(* run lines 227-230: ret, frame = self._cap.retrieve() *)
Retrieve ==
    /\ wPc = "retrieve_wait"
    /\ wTimer = 0
    /\ \/ /\ cap = "none"
          /\ HandleException
          /\ UNCHANGED <<cap, status>>
       \/ /\ cap = "closed"
          /\ handle_capture_failure
       \/ /\ cap = "open"
          /\ src \in {"gone", "stalled"}
          /\ handle_capture_failure
       \/ /\ cap = "open"
          /\ src = "faulty"
          /\ HandleException
          /\ UNCHANGED <<cap, status>>
       \/ /\ cap = "open"
          /\ src = "ok"
          /\ wPc' = "downsample"
          /\ wTimer' = 0
          /\ UNCHANGED <<cap, status>>
    /\ UNCHANGED <<running, reconnect_backoff, sinceEmit, target_fps, emit_interval, cached_emit_interval, capFps,
                   lcap, lFps, lInterval, sinceNow, uiVars, src, events, fresh, sinceFrame>>
    /\ UNCHANGED <<callSnap, poolVars, rateVars, slotVars, discVars, probeVars, protoVars>>

(* run lines 233-234: frame = self._downsample_frame(frame) *)
Downsample ==
    /\ wPc = "downsample"
    /\ \/ /\ src = "faulty"
          /\ HandleException
       \/ /\ src # "faulty"
          /\ wPc' = "emit"
          /\ wTimer' = 0
    /\ UNCHANGED <<workerVars, lcap, lFps, lInterval, sinceNow, uiVars, envVars>>
    /\ UNCHANGED <<callSnap, poolVars, rateVars, slotVars, discVars, probeVars, protoVars>>

(* run lines 236-238: buffer.append; frame_ready.emit(frame); self._last_emit = now *)
Emit ==
    /\ wPc = "emit"
    /\ \/ /\ src = "faulty"
          /\ HandleException
          /\ UNCHANGED <<sinceEmit, fresh, sinceFrame, lInterval, sinceNow>>
       \/ /\ src # "faulty"
          /\ sinceEmit' = sinceNow
          /\ fresh' = TRUE
          /\ sinceFrame' = 0
          /\ lInterval' = <<1, DefaultFps>>
          /\ sinceNow' = 0
          /\ wPc' = "loop"
          /\ wTimer' = 0
    /\ UNCHANGED <<running, reconnect_backoff, cap, target_fps, emit_interval, cached_emit_interval, capFps,
                   lcap, lFps, uiVars, src, events, status>>
    /\ UNCHANGED <<callSnap, poolVars, rateVars, slotVars, discVars, probeVars, protoVars>>

(* time.sleep(0.2) of the exception handler returns *)
ExceptionWake ==
    /\ wPc = "exc_sleep"
    /\ wTimer = 0
    /\ wPc' = "loop"
    /\ lInterval' = <<1, DefaultFps>>
    /\ sinceNow' = 0
    /\ UNCHANGED <<workerVars, wTimer, lcap, lFps, uiVars, envVars>>
    /\ UNCHANGED <<callSnap, poolVars, rateVars, slotVars, discVars, probeVars, protoVars>>

(* run line 244: self._close_capture() after the loop *)
FinalClose ==
    /\ wPc = "final_close"
    /\ cap' = "none"
    /\ wPc' = "done"
    /\ UNCHANGED <<running, reconnect_backoff, sinceEmit, target_fps, emit_interval, cached_emit_interval, capFps,
                   wTimer, lcap, lFps, lInterval, sinceNow, uiVars, envVars>>
    /\ UNCHANGED <<callSnap, poolVars, rateVars, slotVars, discVars, probeVars, protoVars>>

WorkerNext ==
    \/ LoopHead \/ EnsureOpen \/ OpenReturn \/ OpenAssign
    \/ ConfigureRead \/ ConfigureStore \/ ConfigureCache
    \/ EnsureCheck \/ BackoffWake \/ Grab \/ Gate \/ GateWake
    \/ Retrieve \/ Downsample \/ Emit \/ ExceptionWake \/ FinalClose

(* ---------------------------------------------------------------------- *)
(* The UI thread: set_target_fps and stop                                 *)
(* ---------------------------------------------------------------------- *)
(* set_target_fps(arg) is called *)
set_target_fps(arg) ==
    /\ uiPc = "idle"
    /\ events < MaxEvents
    /\ events' = events + 1
    /\ uiArg' = arg
    /\ raced' = FALSE
    /\ uiPc' = "fps_validate"
    /\ callSnap' = <<target_fps, emit_interval>>
    /\ UNCHANGED <<workerVars, threadVars, stopWait, waitTimedOut, stopReturns, src, status, fresh, sinceFrame>>
    /\ UNCHANGED <<poolVars, rateVars, slotVars, discVars, probeVars, protoVars>>

(* set_target_fps lines 350-357 *)
FpsValidate ==
    /\ uiPc = "fps_validate"
    /\ \/ /\ ~ValidFps(uiArg)
          /\ uiPc' = "fps_return"
          /\ UNCHANGED target_fps
       \/ /\ ValidFps(uiArg)
          /\ target_fps' = uiArg
          /\ uiPc' = "fps_interval"
    /\ UNCHANGED <<running, reconnect_backoff, cap, sinceEmit, emit_interval, cached_emit_interval, capFps,
                   threadVars, uiArg, stopWait, waitTimedOut, raced, stopReturns, envVars>>
    /\ UNCHANGED <<callSnap, poolVars, rateVars, slotVars, discVars, probeVars, protoVars>>

(* set_target_fps line 358 *)
FpsInterval ==
    /\ uiPc = "fps_interval"
    /\ emit_interval' = RuntimeInterval(uiArg[1])
    /\ uiPc' = "fps_cache"
    /\ UNCHANGED <<running, reconnect_backoff, cap, sinceEmit, target_fps, cached_emit_interval, capFps,
                   threadVars, uiArg, stopWait, waitTimedOut, raced, stopReturns, envVars>>
    /\ UNCHANGED <<callSnap, poolVars, rateVars, slotVars, discVars, probeVars, protoVars>>

(* set_target_fps line 359 *)
FpsCache ==
    /\ uiPc = "fps_cache"
    /\ cached_emit_interval' = emit_interval
    /\ uiPc' = "fps_push"
    /\ UNCHANGED <<running, reconnect_backoff, cap, sinceEmit, target_fps, emit_interval, capFps,
                   threadVars, uiArg, stopWait, waitTimedOut, raced, stopReturns, envVars>>
    /\ UNCHANGED <<callSnap, poolVars, rateVars, slotVars, discVars, probeVars, protoVars>>

(* set_target_fps lines 361-365 *)
FpsPush ==
    /\ uiPc = "fps_push"
    /\ capFps' = IF cap = "open" THEN uiArg[1] ELSE capFps
    /\ uiPc' = "fps_return"
    /\ UNCHANGED <<running, reconnect_backoff, cap, sinceEmit, target_fps, emit_interval, cached_emit_interval,
                   threadVars, uiArg, stopWait, waitTimedOut, raced, stopReturns, envVars>>
    /\ UNCHANGED <<callSnap, poolVars, rateVars, slotVars, discVars, probeVars, protoVars>>

(* set_target_fps returns *)
FpsReturn ==
    /\ uiPc = "fps_return"
    /\ uiArg' = None
    /\ raced' = FALSE
    /\ uiPc' = "idle"
    /\ callSnap' = NoSnap
    /\ UNCHANGED <<workerVars, threadVars, stopWait, waitTimedOut, stopReturns, envVars>>
    /\ UNCHANGED <<poolVars, rateVars, slotVars, discVars, probeVars, protoVars>>

(* stop lines 388-390: self._running = False; requestInterruption(); wait(2000) is entered *)
stop ==
    /\ uiPc = "idle"
    /\ events < MaxEvents
    /\ events' = events + 1
    /\ running' = FALSE
    /\ stopWait' = StopWaitMs * TicksPerMs
    /\ uiPc' = "stop_wait"
    /\ UNCHANGED <<reconnect_backoff, cap, sinceEmit, target_fps, emit_interval, cached_emit_interval, capFps,
                   threadVars, uiArg, waitTimedOut, raced, stopReturns, src, status, fresh, sinceFrame>>
    /\ UNCHANGED <<callSnap, poolVars, rateVars, slotVars, discVars, probeVars, protoVars>>

(* self.wait(2000) returns: the thread has finished (or never ran) or the time is up *)
StopWaitReturn ==
    /\ uiPc = "stop_wait"
    /\ ThreadFinished \/ stopWait = 0
    /\ waitTimedOut' = ~ThreadFinished
    /\ stopWait' = 0
    /\ uiPc' = "stop_release"
    /\ UNCHANGED <<workerVars, threadVars, uiArg, raced, stopReturns, envVars>>
    /\ UNCHANGED <<callSnap, poolVars, rateVars, slotVars, discVars, probeVars, protoVars>>

(* _safe_release lines 375-379: the if guard and the try/except let nothing escape *)
SafeReleaseRaisesOnNone(c) == c = "none"
SafeReleaseRaises(c) == FALSE

(* stop line 391, _close_capture line 383: self._safe_release(self._cap) *)
StopRelease ==
    /\ uiPc = "stop_release"
    /\ cap' = IF cap = "open" THEN "closed" ELSE cap
    /\ uiPc' = IF SafeReleaseRaises(cap) THEN "stop_raised" ELSE "stop_none"
    /\ UNCHANGED <<running, reconnect_backoff, sinceEmit, target_fps, emit_interval, cached_emit_interval, capFps,
                   threadVars, uiArg, stopWait, waitTimedOut, raced, stopReturns, envVars>>
    /\ UNCHANGED <<callSnap, poolVars, rateVars, slotVars, discVars, probeVars, protoVars>>

(* _close_capture line 384: self._cap = None; stop returns *)
StopNone ==
    /\ uiPc = "stop_none"
    /\ cap' = "none"
    /\ uiPc' = "idle"
    /\ stopReturns' = stopReturns + 1
    /\ UNCHANGED <<running, reconnect_backoff, sinceEmit, target_fps, emit_interval, cached_emit_interval, capFps,
                   threadVars, uiArg, stopWait, waitTimedOut, raced, envVars>>
    /\ UNCHANGED <<callSnap, poolVars, rateVars, slotVars, discVars, probeVars, protoVars>>

(* ---------------------------------------------------------------------- *)
(* The capture source and the clock                                       *)
(* ---------------------------------------------------------------------- *)
(* the device is unplugged, stalls, starts to raise errors, or comes back *)
SourceChange(s) ==
    /\ s # src
    /\ events < MaxEvents
    /\ events' = events + 1
    /\ src' = s
    /\ fresh' = (fresh /\ s = "ok")
    /\ UNCHANGED <<workerVars, threadVars, uiVars, status, sinceFrame>>
    /\ UNCHANGED <<callSnap, poolVars, rateVars, slotVars, discVars, probeVars, protoVars>>

(* line 249: the backend answers isOpened() on the handle the worker holds; a *)
(* handle whose device went away starts to report not-opened by itself        *)
HandleDrops ==
    /\ cap = "open"
    /\ src = "gone"
    /\ cap' = "closed"
    /\ UNCHANGED <<running, reconnect_backoff, sinceEmit, target_fps, emit_interval, cached_emit_interval, capFps>>
    /\ UNCHANGED <<threadVars, uiVars, envVars>>
    /\ UNCHANGED <<callSnap, poolVars, rateVars, slotVars, discVars, probeVars, protoVars>>

(* the worker thread is in a sleep or a backend call that takes time *)
WorkerTimed ==
    /\ wPc \in {"open_wait", "backoff_sleep", "gate_sleep", "retrieve_wait", "exc_sleep"}
    /\ wTimer > 0
(* grab() on a stalled source does not return *)
WorkerStalled == wPc = "grab" /\ cap = "open" /\ src = "stalled"
WorkerBlocked == WorkerTimed \/ WorkerStalled \/ ThreadFinished
UIWaiting == uiPc = "stop_wait" /\ ~ThreadFinished /\ stopWait > 0

Saturate(t) == Min(t, SinceCap)

(* time passes, up to the next moment a sleep, a backend call or the wait ends *)
Advance ==
    /\ WorkerBlocked
    /\ uiPc = "idle" \/ UIWaiting
    /\ WorkerTimed \/ UIWaiting
    /\ LET d == IF WorkerTimed /\ UIWaiting THEN Min(wTimer, stopWait)
                 ELSE IF WorkerTimed THEN wTimer ELSE stopWait
       IN /\ wTimer' = IF WorkerTimed THEN wTimer - d ELSE wTimer
          /\ stopWait' = IF UIWaiting THEN stopWait - d ELSE stopWait
          /\ sinceEmit' = Saturate(sinceEmit + d)
          /\ sinceFrame' = Saturate(sinceFrame + d)
          /\ sinceNow' = IF wPc \in {"retrieve_wait", "downsample", "emit"}
                          THEN Saturate(sinceNow + d) ELSE sinceNow
    /\ UNCHANGED <<running, reconnect_backoff, cap, target_fps, emit_interval, cached_emit_interval, capFps,
                   wPc, lcap, lFps, lInterval,
                   uiPc, uiArg, waitTimedOut, raced, stopReturns,
                   src, events, status, fresh>>
    /\ UNCHANGED <<callSnap, poolVars, rateVars, slotVars, discVars, probeVars, protoVars>>

UINext ==
    \/ \E arg \in FpsArgs : set_target_fps(arg)
    \/ FpsValidate \/ FpsInterval \/ FpsCache \/ FpsPush \/ FpsReturn
    \/ stop \/ StopWaitReturn \/ StopRelease \/ StopNone

(* ====================================================================== *)
(* Part 2: FramePool, the pool of reusable arrays, and the threads that   *)
(* call its get, release and clear.                                       *)
(* ====================================================================== *)
(* FramePool(max_size): the maxlen of the deque *)
MaxSize == 2
(* arrays allocated in one behaviour *)
MaxAlloc == 3

PoolThreads == {"t1", "t2"}
NoThread == "none"
Shapes == {"vga", "hd"}
Dtypes == {"uint8", "float32"}
(* the <<shape, dtype>> pairs the threads ask for: they differ in shape, in dtype, or in both *)
Kinds == (Shapes \X Dtypes) \ {<<"hd", "float32">>}
NoBuf == 0
NoKind == <<"none", "none">>

(* FramePool.__init__, and threads that hold nothing *)
FramePoolInit ==
    /\ pool = <<>>
    /\ lock = NoThread
    /\ bufKind = <<>>
    /\ held = [t \in PoolThreads |-> {}]
    /\ tpc = [t \in PoolThreads |-> "idle"]
    /\ treq = [t \in PoolThreads |-> NoKind]
    /\ tframe = [t \in PoolThreads |-> NoBuf]
    /\ relOrder = <<>>

(* a sequence without its occurrences of x *)
Without(s, x) == SelectSeq(s, LAMBDA y : y # x)

(* deque.pop(): the rightmost element, and what is left *)
PopFrame(p) == p[Len(p)]
PopRestKeeps(p) == p
PopRest(p) == SubSeq(p, 1, Len(p) - 1)

(* deque(maxlen=max_size).append(frame): a full deque drops its leftmost element *)
DequeAppendDropsNew(p, f) == IF Len(p) >= MaxSize THEN p ELSE Append(p, f)
DequeAppend(p, f) == IF Len(p) >= MaxSize THEN Append(Tail(p), f) ELSE Append(p, f)

(* frame.shape == shape and frame.dtype == dtype *)
Matches(f, k) == bufKind[f] = k

(* threads that have entered get and not yet returned from it *)
InGet == {t \in PoolThreads : tpc[t] \in {"get_lock", "get_pop", "get_check", "get_alloc"}}

(* a thread calls get(shape, dtype) *)
GetCall(t, k) ==
    /\ tpc[t] = "idle"
    /\ Len(bufKind) + Cardinality(InGet) < MaxAlloc
    /\ tpc' = [tpc EXCEPT ![t] = "get_lock"]
    /\ treq' = [treq EXCEPT ![t] = k]
    /\ UNCHANGED <<pool, lock, bufKind, held, tframe, relOrder>>
    /\ UNCHANGED <<captureVars, rateVars, slotVars, discVars, probeVars, protoVars>>

(* get line 140: with self._lock *)
GetLock(t) ==
    /\ tpc[t] = "get_lock"
    /\ lock = NoThread
    /\ lock' = t
    /\ tpc' = [tpc EXCEPT ![t] = "get_pop"]
    /\ UNCHANGED <<pool, bufKind, held, treq, tframe, relOrder>>
    /\ UNCHANGED <<captureVars, rateVars, slotVars, discVars, probeVars, protoVars>>

(* get lines 141-146: frame = self._pool.pop(); IndexError leaves the with-block *)
GetPop(t) ==
    /\ tpc[t] = "get_pop"
    /\ \/ /\ pool = <<>>
          /\ lock' = NoThread
          /\ tpc' = [tpc EXCEPT ![t] = "get_alloc"]
          /\ UNCHANGED <<pool, tframe, relOrder>>
       \/ /\ pool # <<>>
          /\ tframe' = [tframe EXCEPT ![t] = PopFrame(pool)]
          /\ pool' = PopRest(pool)
          /\ relOrder' = Without(relOrder, PopFrame(pool))
          /\ tpc' = [tpc EXCEPT ![t] = "get_check"]
          /\ UNCHANGED lock
    /\ UNCHANGED <<bufKind, held, treq>>
    /\ UNCHANGED <<captureVars, rateVars, slotVars, discVars, probeVars, protoVars>>

(* get lines 143-144: return the popped frame if it matches, else leave the with-block *)
GetCheck(t) ==
    /\ tpc[t] = "get_check"
    /\ \/ /\ Matches(tframe[t], treq[t])
          /\ held' = [held EXCEPT ![t] = @ \cup {tframe[t]}]
          /\ tpc' = [tpc EXCEPT ![t] = "idle"]
          /\ treq' = [treq EXCEPT ![t] = NoKind]
       \/ /\ ~Matches(tframe[t], treq[t])
          /\ tpc' = [tpc EXCEPT ![t] = "get_alloc"]
          /\ UNCHANGED <<held, treq>>
    /\ tframe' = [tframe EXCEPT ![t] = NoBuf]
    /\ lock' = NoThread
    /\ UNCHANGED <<pool, bufKind, relOrder>>
    /\ UNCHANGED <<captureVars, rateVars, slotVars, discVars, probeVars, protoVars>>

(* get line 147: return np.empty(shape, dtype=dtype) *)
GetAlloc(t) ==
    /\ tpc[t] = "get_alloc"
    /\ bufKind' = Append(bufKind, treq[t])
    /\ held' = [held EXCEPT ![t] = @ \cup {Len(bufKind) + 1}]
    /\ tpc' = [tpc EXCEPT ![t] = "idle"]
    /\ treq' = [treq EXCEPT ![t] = NoKind]
    /\ UNCHANGED <<pool, lock, tframe, relOrder>>
    /\ UNCHANGED <<captureVars, rateVars, slotVars, discVars, probeVars, protoVars>>

(* a thread calls release(frame) with an array it holds, or with None *)
ReleaseCall(t, f) ==
    /\ tpc[t] = "idle"
    /\ f \in held[t] \cup {NoBuf}
    /\ held' = [held EXCEPT ![t] = @ \ {f}]
    /\ \/ /\ f = NoBuf
          /\ UNCHANGED <<tpc, tframe>>
       \/ /\ f # NoBuf
          /\ tpc' = [tpc EXCEPT ![t] = "rel_lock"]
          /\ tframe' = [tframe EXCEPT ![t] = f]
    /\ UNCHANGED <<pool, lock, bufKind, treq, relOrder>>
    /\ UNCHANGED <<captureVars, rateVars, slotVars, discVars, probeVars, protoVars>>

(* release line 152: with self._lock *)
ReleaseLock(t) ==
    /\ tpc[t] = "rel_lock"
    /\ lock = NoThread
    /\ lock' = t
    /\ tpc' = [tpc EXCEPT ![t] = "rel_append"]
    /\ UNCHANGED <<pool, bufKind, held, treq, tframe, relOrder>>
    /\ UNCHANGED <<captureVars, rateVars, slotVars, discVars, probeVars, protoVars>>

(* release line 153: self._pool.append(frame) *)
ReleaseAppend(t) ==
    /\ tpc[t] = "rel_append"
    /\ pool' = DequeAppend(pool, tframe[t])
    /\ relOrder' = Append(Without(relOrder, tframe[t]), tframe[t])
    /\ tframe' = [tframe EXCEPT ![t] = NoBuf]
    /\ lock' = NoThread
    /\ tpc' = [tpc EXCEPT ![t] = "idle"]
    /\ UNCHANGED <<bufKind, held, treq>>
    /\ UNCHANGED <<captureVars, rateVars, slotVars, discVars, probeVars, protoVars>>

(* clear lines 157-158, called by safe_cleanup on the main thread *)
clear ==
    /\ lock = NoThread
    /\ pool' = <<>>
    /\ relOrder' = <<>>
    /\ UNCHANGED <<lock, bufKind, held, tpc, treq, tframe>>
    /\ UNCHANGED <<captureVars, rateVars, slotVars, discVars, probeVars, protoVars>>

PoolNext ==
    \/ \E t \in PoolThreads, k \in Kinds : GetCall(t, k)
    \/ \E t \in PoolThreads : GetLock(t) \/ GetPop(t) \/ GetCheck(t) \/ GetAlloc(t)
    \/ \E t \in PoolThreads, f \in 0..MaxAlloc : ReleaseCall(t, f)
    \/ \E t \in PoolThreads : ReleaseLock(t) \/ ReleaseAppend(t)
    \/ clear

(* ====================================================================== *)
(* Part 3: adjust_fps, the timer callback that lowers and restores the    *)
(* target fps of the camera widgets, and CameraWidget.set_dynamic_fps.    *)
(* Load is in percent of the CPU count, temperature in degrees Celsius.   *)
(* ====================================================================== *)
MIN_DYNAMIC_FPS == 5
CPU_LOAD_THRESHOLD == 85
CPU_TEMP_THRESHOLD_C == 70
STRESS_HOLD_COUNT == 2
RECOVER_HOLD_COUNT == 3
DynamicFpsStep == 2
FallbackBaseFps == 30
ProfileCaptureFps == 20
ProfileUiFps == 25
PlaceholderUiFps == 5

(* adjust_fps calls in one behaviour *)
MaxTicks == 8

(* the slots of the grid, in the order main creates them *)
CAMERA_SLOT_COUNT == 3
Widgets == 1..CAMERA_SLOT_COUNT
(* target_fps a camera widget is constructed with: None, 4, 6, 8 or the profile's fps *)
WidgetBaselines == {None, Some(4 * FpsDen), Some(6 * FpsDen), Some(8 * FpsDen),
                    Some(ProfileCaptureFps * FpsDen)}
(* what _read_cpu_load_ratio and _read_cpu_temp_c may return *)
LoadReadings == {None, Some(50), Some(95)}
TempReadings == {None, Some(60), Some(75)}

(* CameraWidget.__init__ and _apply_ui_fps: max(1, int(ui_fps)) *)
AppliedUiFps(ui_fps) == Max(1, ui_fps)

(* line 1319: if DYNAMIC_FPS_ENABLED and camera_widgets, with the flag on *)
PerfTimerCreated(cw) == cw # {}

(* the widgets as main builds them: camera widgets for the working cameras, *)
(* placeholders for the other slots; the timer exists if there is a camera  *)
RateInit ==
    /\ stress_counter = [stress |-> 0, recover |-> 0]
    /\ camera_widgets \in SUBSET Widgets
    /\ perf_timer = PerfTimerCreated(camera_widgets)
    /\ missed = <<>>
    /\ capture_enabled = [w \in Widgets |-> w \in camera_widgets]
    /\ base_target_fps \in [Widgets -> WidgetBaselines]
    /\ \A w \in Widgets \ camera_widgets : base_target_fps[w] = None
    /\ current_target_fps = base_target_fps
    /\ worker_target_fps = base_target_fps
    /\ ui_render_fps = [w \in Widgets |->
                          IF w \in camera_widgets THEN AppliedUiFps(ProfileUiFps)
                          ELSE AppliedUiFps(PlaceholderUiFps)]
    /\ ticks = <<>>

(* one camera per slot, each at the profile's fps *)
RateIdle ==
    /\ RateInit
    /\ camera_widgets = Widgets
    /\ \A w \in Widgets : base_target_fps[w] = Some(ProfileCaptureFps * FpsDen)

(* _is_system_stressed: a reading that is there and at or over its threshold *)
IsStressed(load, temp) ==
    \/ load # None /\ load[1] >= CPU_LOAD_THRESHOLD
    \/ temp # None /\ temp[1] >= CPU_TEMP_THRESHOLD_C

(* x or d, for an Optional number x *)
OrElse(x, d) == IF x # None /\ x[1] # 0 THEN x[1] ELSE d

(* adjust_fps lines 1334-1335 and 1348-1349 *)
BaseOf(w) == OrElse(base_target_fps[w], FallbackBaseFps * FpsDen)
CurOf(w) == OrElse(current_target_fps[w], BaseOf(w))

(* adjust_fps lines 1325-1330 *)
CountTick(c, stressed) ==
    IF stressed THEN [stress |-> c.stress + 1, recover |-> 0]
    ELSE [stress |-> 0, recover |-> c.recover + 1]

(* adjust_fps lines 1332 and 1346 *)
StressHoldReachedAtOnce(c) == c.stress >= 1
StressHoldReached(c) == c.stress >= STRESS_HOLD_COUNT
RecoverHoldReached(c) == c.recover >= RECOVER_HOLD_COUNT

(* adjust_fps lines 1339 and 1353: the streak starts over after an adjustment *)
StreakKept(n) == n
StreakAfterAdjust(n) == 0

(* adjust_fps line 1336: max(MIN_DYNAMIC_FPS, cur - 2) *)
LoweredFps(cur) == Max(MIN_DYNAMIC_FPS * FpsDen, cur - DynamicFpsStep * FpsDen)
(* adjust_fps line 1350: min(base, cur + 2) *)
RaisedFpsStays(base, cur) == cur
RaisedFpsUncapped(base, cur) == cur + DynamicFpsStep * FpsDen
RaisedFps(base, cur) == Min(base, cur + DynamicFpsStep * FpsDen)

(* set_dynamic_fps lines 923-925: fps after the floor *)
FlooredFps(fps) == IF fps < MIN_DYNAMIC_FPS * FpsDen THEN MIN_DYNAMIC_FPS * FpsDen ELSE fps

(* what adjust_fps hands to set_dynamic_fps for w, None when it does not call it *)
Requested(w, lower, raise) ==
    IF lower /\ LoweredFps(CurOf(w)) < CurOf(w) THEN Some(LoweredFps(CurOf(w)))
    ELSE IF raise /\ RaisedFps(BaseOf(w), CurOf(w)) > CurOf(w) THEN Some(RaisedFps(BaseOf(w), CurOf(w)))
    ELSE None

(* set_dynamic_fps: is the request applied to the widget *)
Applies(w, req) == req # None /\ capture_enabled[w]

(* adjust_fps lines 1325-1354: what one call does once _is_system_stressed has answered *)
AdjustBody(stressed) ==
    LET c == CountTick(stress_counter, stressed)
        lower == StressHoldReached(c)
        raise == RecoverHoldReached(c)
        req == [w \in Widgets |->
                  IF w \in camera_widgets THEN Requested(w, lower, raise) ELSE None]
    IN /\ stress_counter' =
             [stress |-> IF lower THEN StreakAfterAdjust(c.stress) ELSE c.stress,
              recover |-> IF raise THEN StreakAfterAdjust(c.recover) ELSE c.recover]
       /\ current_target_fps' = [w \in Widgets |->
             IF Applies(w, req[w]) THEN Some(FlooredFps(req[w][1])) ELSE current_target_fps[w]]
       /\ worker_target_fps' = [w \in Widgets |->
             IF Applies(w, req[w]) /\ ValidFps(Some(FlooredFps(req[w][1])))
             THEN Some(FlooredFps(req[w][1])) ELSE worker_target_fps[w]]

(* adjust_fps, one timer tick with the readings it samples *)
adjust_fps(load, temp) ==
    /\ perf_timer
    /\ Len(ticks) < MaxTicks
    /\ ticks' = Append(ticks, IsStressed(load, temp))
    /\ AdjustBody(IsStressed(load, temp))
    /\ UNCHANGED <<camera_widgets, capture_enabled, base_target_fps, ui_render_fps>>
    /\ UNCHANGED <<perf_timer, missed>>
    /\ UNCHANGED <<captureVars, poolVars, slotVars, discVars, probeVars, protoVars>>

(* adjust_fps, a later tick: the system is calm from now on, and the verdicts are no *)
(* longer recorded in ticks                                                         *)
adjust_fps_calm(load, temp) ==
    /\ perf_timer
    /\ Len(ticks) = MaxTicks
    /\ ~IsStressed(load, temp)
    /\ AdjustBody(IsStressed(load, temp))
    /\ UNCHANGED <<camera_widgets, capture_enabled, base_target_fps, ui_render_fps>>
    /\ UNCHANGED <<ticks, perf_timer, missed>>
    /\ UNCHANGED <<captureVars, poolVars, slotVars, discVars, probeVars, protoVars>>

(* PERF_CHECK_INTERVAL_MS goes by while no perf_timer exists: nothing is called *)
IntervalWithoutTimer(load, temp) ==
    /\ ~perf_timer
    /\ Len(missed) < MaxTicks
    /\ missed' = Append(missed, IsStressed(load, temp))
    /\ UNCHANGED <<stress_counter, capture_enabled, base_target_fps, current_target_fps,
                   worker_target_fps, ui_render_fps, camera_widgets, ticks, perf_timer>>
    /\ UNCHANGED <<captureVars, poolVars, slotVars, discVars, probeVars, protoVars>>

(* attach_camera lines 583-590: the fields of the widget, with cap_fps and ui_fps of the profile *)
AttachWidget(w) ==
    /\ capture_enabled' = [capture_enabled EXCEPT ![w] = TRUE]
    /\ base_target_fps' = [base_target_fps EXCEPT ![w] = Some(ProfileCaptureFps * FpsDen)]
    /\ current_target_fps' = [current_target_fps EXCEPT ![w] = Some(ProfileCaptureFps * FpsDen)]
    /\ worker_target_fps' = [worker_target_fps EXCEPT ![w] = Some(ProfileCaptureFps * FpsDen)]
    /\ ui_render_fps' = [ui_render_fps EXCEPT ![w] = AppliedUiFps(ProfileUiFps)]

(* rescan_and_attach lines 1392-1396, seen from the rate controller *)
attach_camera(w) ==
    /\ w \notin camera_widgets
    /\ ~capture_enabled[w]
    /\ AttachWidget(w)
    /\ camera_widgets' = camera_widgets \cup {w}
    /\ UNCHANGED <<stress_counter, ticks, perf_timer, missed>>
    /\ UNCHANGED <<captureVars, poolVars, slotVars, discVars, probeVars, protoVars>>

RateNext ==
    \/ \E load \in LoadReadings, temp \in TempReadings : adjust_fps(load, temp)
    \/ \E load \in LoadReadings, temp \in TempReadings : IntervalWithoutTimer(load, temp)
    \/ \E w \in Widgets : attach_camera(w)

(* the perf_timer fires *)
PerfTick ==
    \/ \E load \in LoadReadings, temp \in TempReadings : adjust_fps(load, temp)
    \/ \E load \in LoadReadings, temp \in TempReadings : adjust_fps_calm(load, temp)
(* the rate controller on a system that stays calm after the recorded ticks *)
RecoverNext ==
    \/ RateNext
    \/ \E load \in LoadReadings, temp \in TempReadings : adjust_fps_calm(load, temp)

(* ====================================================================== *)
(* Part 4: main, the slots of the grid: the camera widgets and the         *)
(* placeholders it creates at startup, rescan_and_attach, the timer        *)
(* callback that attaches cameras to placeholders, and on_sigint.          *)
(* The clock is time.monotonic() in whole seconds.                         *)
(* ====================================================================== *)
RESCAN_INTERVAL_MS == 5000
FAILED_CAMERA_COOLDOWN_SEC == 30
RescanIntervalSec == RESCAN_INTERVAL_MS \div 1000

(* rescan ticks in one behaviour *)
MaxRescans == 7
(* devices plugged, unplugged or breaking in one behaviour *)
MaxDevChanges == 1

(* the N of /dev/videoN *)
Idx == 0..3
DevStates == {"absent", "ok", "bad"}
(* what time.monotonic() may show when main starts: its reference point is undefined *)
ClockStarts == {0, 100}

(* the elements of a set of numbers, ascending *)
RECURSIVE Ascending(_)
Ascending(S) ==
    IF S = {} THEN <<>>
    ELSE LET m == CHOOSE x \in S : \A y \in S : x <= y
         IN <<m>> \o Ascending(S \ {m})

Elems(s) == {s[i] : i \in 1..Len(s)}
(* the sequences over S without a repeated element *)
DistinctSeqs(S) ==
    UNION {{s \in [1..n -> S] : \A i, j \in 1..n : i # j => s[i] # s[j]} : n \in 0..Cardinality(S)}

(* get_video_indexes lines 1083-1093: the device nodes that exist, sorted *)
get_video_indexes == Ascending({i \in Idx : dev[i] # "absent"})

(* test_single_camera(idx, retries=2, allow_kill=False): open and grab succeed on a working device *)
ProbeOk(i) == dev[i] = "ok"

(* main lines 1165-1167 and the widgets before the slots are created *)
NoWidgets ==
    /\ stress_counter = [stress |-> 0, recover |-> 0]
    /\ camera_widgets = {}
    /\ capture_enabled = [w \in Widgets |-> FALSE]
    /\ base_target_fps = [w \in Widgets |-> None]
    /\ current_target_fps = [w \in Widgets |-> None]
    /\ worker_target_fps = [w \in Widgets |-> None]
    /\ ui_render_fps = [w \in Widgets |-> AppliedUiFps(PlaceholderUiFps)]
    /\ ticks = <<>>
    /\ perf_timer = FALSE
    /\ missed = <<>>

(* main up to line 1203: find_working_cameras has returned its list *)
SlotInit ==
    /\ main_pc = "startup"
    /\ dev \in [Idx -> DevStates]
    /\ devChanges = 0
    /\ working_cameras \in DistinctSeqs({i \in Idx : dev[i] = "ok"})
    /\ clock \in ClockStarts
    /\ rescans = 0
    /\ placeholder_slots = <<>>
    /\ camera_stream_link = [w \in Widgets |-> None]
    /\ workers_started = [w \in Widgets |-> 0]
    /\ active_indexes = {}
    /\ failed_indexes = [i \in Idx |-> None]
    /\ rescan_timer = FALSE
    /\ rescan_pc = "idle"
    /\ rnow = 0
    /\ candidates = <<>>
    /\ rslot = 0
    /\ stop_called = {}

(* the slots when no other part looks at them *)
SlotIdle ==
    /\ SlotInit
    /\ dev = [i \in Idx |-> "absent"]
    /\ clock = 0

(* line 1251: slot_idx < len(working_cameras), slots counted from 1 *)
GetsCamera(w, found) == w <= Len(found)

(* main lines 1206-1208, 1250-1280, 1319 and 1362: the slots are created *)
Startup ==
    /\ main_pc = "startup"
    /\ main_pc' = "running"
    /\ LET known_indexes == Elems(get_video_indexes)
           cams == {w \in Widgets : GetsCamera(w, working_cameras)}
       IN /\ active_indexes' = Elems(working_cameras)
          /\ failed_indexes' = [i \in Idx |->
                IF i \in known_indexes \ Elems(working_cameras) THEN Some(clock) ELSE None]
          /\ camera_widgets' = cams
          /\ placeholder_slots' = Ascending(Widgets \ cams)
          /\ camera_stream_link' = [w \in Widgets |->
                IF w \in cams THEN Some(working_cameras[w]) ELSE None]
          /\ workers_started' = [w \in Widgets |-> IF w \in cams THEN 1 ELSE 0]
          /\ capture_enabled' = [w \in Widgets |-> w \in cams]
          /\ base_target_fps' = [w \in Widgets |->
                IF w \in cams THEN Some(ProfileCaptureFps * FpsDen) ELSE None]
          /\ current_target_fps' = base_target_fps'
          /\ worker_target_fps' = base_target_fps'
          /\ ui_render_fps' = [w \in Widgets |->
                IF w \in cams THEN AppliedUiFps(ProfileUiFps) ELSE AppliedUiFps(PlaceholderUiFps)]
          /\ perf_timer' = PerfTimerCreated(cams)
          /\ rescan_timer' = (Widgets \ cams # {})
    /\ UNCHANGED <<dev, devChanges, working_cameras, clock, rescans, rescan_pc, rnow,
                   candidates, rslot, stop_called>>
    /\ UNCHANGED <<stress_counter, ticks, missed>>
    /\ UNCHANGED <<captureVars, poolVars, discVars, probeVars, protoVars>>

(* rescan_and_attach line 1375: if last_failed and (now - last_failed) < FAILED_CAMERA_COOLDOWN_SEC *)
CoolingDown(t, now) == t # None /\ t[1] # 0 /\ now - t[1] < FAILED_CAMERA_COOLDOWN_SEC

(* rescan_and_attach lines 1371-1377: is idx appended to candidates *)
IsCandidateIfNotFailed(i, now) == ~CoolingDown(failed_indexes[i], now)
IsCandidate(i, now) == i \notin active_indexes /\ ~CoolingDown(failed_indexes[i], now)

(* rescan_and_attach lines 1364-1365: if not placeholder_slots: return *)
TickNeverReturnsEarly(p) == FALSE
TickReturnsEarly(p) == p = <<>>

(* rescan_timer fires: rescan_and_attach lines 1364-1380 *)
RescanTick ==
    /\ main_pc = "running" /\ rescan_timer /\ rescan_pc = "idle"
    /\ rescans < MaxRescans
    /\ rescans' = rescans + 1
    /\ clock' = clock + RescanIntervalSec
    /\ IF TickReturnsEarly(placeholder_slots)
       THEN UNCHANGED <<rescan_pc, rnow, candidates>>
       ELSE /\ rnow' = clock'
            /\ candidates' = SelectSeq(get_video_indexes, LAMBDA i : IsCandidate(i, clock'))
            /\ rescan_pc' = IF candidates' = <<>> THEN "idle" ELSE "loop"
    /\ UNCHANGED <<main_pc, dev, devChanges, working_cameras, placeholder_slots,
                   camera_stream_link, workers_started, active_indexes, failed_indexes,
                   rescan_timer, rslot, stop_called>>
    /\ UNCHANGED <<captureVars, poolVars, rateVars, discVars, probeVars, protoVars>>

(* rescan_and_attach lines 1382-1386: the head of the loop, test_single_camera is entered *)
RescanLoop ==
    /\ main_pc = "running" /\ rescan_pc = "loop"
    /\ IF candidates = <<>> \/ placeholder_slots = <<>>
       THEN /\ rescan_pc' = "idle"
            /\ candidates' = <<>>
       ELSE /\ rescan_pc' = "probing"
            /\ UNCHANGED candidates
    /\ UNCHANGED <<main_pc, dev, devChanges, working_cameras, clock, rescans, placeholder_slots,
                   camera_stream_link, workers_started, active_indexes, failed_indexes,
                   rescan_timer, rnow, rslot, stop_called>>
    /\ UNCHANGED <<captureVars, poolVars, rateVars, discVars, probeVars, protoVars>>

(* rescan_and_attach lines 1386-1392 and 1400-1401: test_single_camera returns *)
ProbeReturn ==
    /\ main_pc = "running" /\ rescan_pc = "probing"
    /\ IF ProbeOk(Head(candidates))
       THEN /\ rescan_pc' = "attach"
            /\ UNCHANGED <<candidates, failed_indexes>>
       ELSE /\ failed_indexes' = [failed_indexes EXCEPT ![Head(candidates)] = Some(rnow)]
            /\ candidates' = Tail(candidates)
            /\ rescan_pc' = "loop"
    /\ UNCHANGED <<main_pc, dev, devChanges, working_cameras, clock, rescans, placeholder_slots,
                   camera_stream_link, workers_started, active_indexes,
                   rescan_timer, rnow, rslot, stop_called>>
    /\ UNCHANGED <<captureVars, poolVars, rateVars, discVars, probeVars, protoVars>>

(* placeholder_slots.pop(0): what is left of the list *)
RestAfterPopKeeps(s) == s
RestAfterPop(s) == Tail(s)
(* placeholder_slots.pop(0): the element returned *)
PoppedLast(s) == s[Len(s)]
Popped(s) == Head(s)

(* rescan_and_attach lines 1393-1395: slot = placeholder_slots.pop(0); slot.attach_camera(ok, ...) *)
RescanAttach ==
    /\ main_pc = "running" /\ rescan_pc = "attach"
    /\ LET slot == Popped(placeholder_slots)
       IN /\ rslot' = slot
          /\ placeholder_slots' = RestAfterPop(placeholder_slots)
          /\ IF capture_enabled[slot] /\ workers_started[slot] > 0
             THEN UNCHANGED <<capture_enabled, base_target_fps, current_target_fps,
                              worker_target_fps, ui_render_fps, camera_stream_link, workers_started>>
             ELSE /\ AttachWidget(slot)
                  /\ camera_stream_link' = [camera_stream_link EXCEPT ![slot] = Some(Head(candidates))]
                  /\ workers_started' = [workers_started EXCEPT ![slot] = @ + 1]
    /\ rescan_pc' = "append"
    /\ UNCHANGED <<main_pc, dev, devChanges, working_cameras, clock, rescans,
                   active_indexes, failed_indexes, rescan_timer, rnow, candidates, stop_called>>
    /\ UNCHANGED <<stress_counter, camera_widgets, ticks, perf_timer, missed>>
    /\ UNCHANGED <<captureVars, poolVars, discVars, probeVars, protoVars>>

(* line 1398: failed_indexes.pop(ok, None) *)
RecordKept(f, i) == f
RecordPopped(f, i) == [f EXCEPT ![i] = None]

(* rescan_and_attach lines 1396-1398: camera_widgets.append(slot); active_indexes.add(ok); *)
(* failed_indexes.pop(ok, None)                                                           *)
RescanAppend ==
    /\ main_pc = "running" /\ rescan_pc = "append"
    /\ camera_widgets' = camera_widgets \cup {rslot}
    /\ active_indexes' = active_indexes \cup {Head(candidates)}
    /\ failed_indexes' = RecordPopped(failed_indexes, Head(candidates))
    /\ candidates' = Tail(candidates)
    /\ rescan_pc' = "loop"
    /\ UNCHANGED <<main_pc, dev, devChanges, working_cameras, clock, rescans, placeholder_slots,
                   camera_stream_link, workers_started, rescan_timer, rnow, rslot, stop_called>>
    /\ UNCHANGED <<stress_counter, capture_enabled, base_target_fps, current_target_fps,
                   worker_target_fps, ui_render_fps, ticks, perf_timer, missed>>
    /\ UNCHANGED <<captureVars, poolVars, discVars, probeVars, protoVars>>

(* on_sigint lines 1171-1173: safe_cleanup(camera_widgets) calls cleanup, and so worker.stop(), *)
(* of every widget in the list; sys.exit(0). The handler runs between two bytecodes of the     *)
(* main thread, wherever that thread is.                                                       *)
on_sigint ==
    /\ main_pc = "running"
    /\ stop_called' = stop_called \cup {w \in camera_widgets : workers_started[w] > 0}
    /\ main_pc' = "exited"
    /\ UNCHANGED <<dev, devChanges, working_cameras, clock, rescans, placeholder_slots,
                   camera_stream_link, workers_started, active_indexes, failed_indexes,
                   rescan_timer, rescan_pc, rnow, candidates, rslot>>
    /\ UNCHANGED <<captureVars, poolVars, rateVars, discVars, probeVars, protoVars>>

(* SIGTERM arrives: line 1175 registers a handler for SIGINT only, so the default *)
(* action ends the process at once; no handler and no atexit function runs       *)
sigterm ==
    /\ main_pc = "running"
    /\ main_pc' = "exited"
    /\ UNCHANGED <<dev, devChanges, working_cameras, clock, rescans, placeholder_slots,
                   camera_stream_link, workers_started, active_indexes, failed_indexes,
                   rescan_timer, rescan_pc, rnow, candidates, rslot, stop_called>>
    /\ UNCHANGED <<captureVars, poolVars, rateVars, discVars, probeVars, protoVars>>

(* a camera is plugged in, unplugged, or stops or starts to deliver frames *)
DevChange(i, s) ==
    /\ main_pc = "running"
    /\ devChanges < MaxDevChanges
    /\ dev[i] # s
    /\ dev' = [dev EXCEPT ![i] = s]
    /\ devChanges' = devChanges + 1
    /\ UNCHANGED <<main_pc, working_cameras, clock, rescans, placeholder_slots,
                   camera_stream_link, workers_started, active_indexes, failed_indexes,
                   rescan_timer, rescan_pc, rnow, candidates, rslot, stop_called>>
    /\ UNCHANGED <<captureVars, poolVars, rateVars, discVars, probeVars, protoVars>>

SlotNext ==
    \/ Startup
    \/ RescanTick
    \/ RescanLoop
    \/ ProbeReturn
    \/ RescanAttach
    \/ RescanAppend
    \/ on_sigint
    \/ sigterm
    \/ \E i \in Idx, s \in DevStates : DevChange(i, s)

(* ====================================================================== *)
(* Part 5: find_working_cameras, the probes of its two passes in the       *)
(* threads of its pool, test_single_camera and kill_device_holders.        *)
(* ====================================================================== *)
(* times a killed holder is started again and reopens its device, in one behaviour *)
MaxRespawns == 1

(* the device nodes discovery looks at *)
Nodes == {i \in Idx : i <= 2}
(* os.getpid(), a process of the same user, and a process of another user *)
OwnPid == "self"
Pids == {OwnPid, "mine", "foreign"}
(* who may have a device open when discovery starts *)
HolderSets == {{}, {"mine"}, {"foreign"}, {OwnPid}, {OwnPid, "foreign"}}

(* find_working_cameras has not been called *)
DiscIdle ==
    /\ fwc_pc = "idle"
    /\ holders = [i \in Idx |-> {}]
    /\ kill_flag = TRUE
    /\ probe_pc = [i \in Idx |-> "none"]
    /\ working = <<>>
    /\ final_working = <<>>
    /\ returned = <<>>
    /\ signalled = {}
    /\ listed = FALSE
    /\ kill_result = [i \in Idx |-> None]
    /\ respawns = 0

(* the devices, their holders and the policy flag of the configuration *)
DiscInit ==
    /\ fwc_pc = "idle"
    /\ holders \in [Idx -> HolderSets]
    /\ \A i \in Idx : dev[i] # "ok" => holders[i] = {}
    /\ \A i \in Idx \ Nodes : dev[i] = "absent"
    /\ kill_flag \in BOOLEAN
    /\ probe_pc = [i \in Idx |-> "none"]
    /\ working = <<>>
    /\ final_working = <<>>
    /\ returned = <<>>
    /\ signalled = {}
    /\ listed = FALSE
    /\ kill_result = [i \in Idx |-> None]
    /\ respawns = 0

(* try_open lines 1053-1066: open and grab succeed on a working device nobody holds *)
CanOpen(i) == dev[i] = "ok" /\ holders[i] = {}

(* find_working_cameras lines 1097-1108: the first pass is submitted to the pool *)
FwcStart ==
    /\ fwc_pc = "idle"
    /\ IF get_video_indexes = <<>>
       THEN /\ fwc_pc' = "done"
            /\ UNCHANGED probe_pc
       ELSE /\ fwc_pc' = "pass1"
            /\ probe_pc' = [i \in Idx |-> IF i \in Elems(get_video_indexes) THEN "try" ELSE "none"]
    /\ UNCHANGED <<holders, kill_flag, working, final_working, returned, signalled, listed,
                   kill_result, respawns>>
    /\ UNCHANGED <<captureVars, poolVars, rateVars, slotVars, probeVars, protoVars>>

(* test_single_camera lines 1068-1071 in a pool thread, and lines 1109-1113: the future *)
(* completes and as_completed hands its result to working.append                       *)
Probe1Try(i) ==
    /\ fwc_pc = "pass1" /\ probe_pc[i] = "try"
    /\ IF CanOpen(i)
       THEN /\ working' = Append(working, i)
            /\ probe_pc' = [probe_pc EXCEPT ![i] = "done"]
       ELSE /\ probe_pc' = [probe_pc EXCEPT ![i] = "kill"]
            /\ UNCHANGED working
    /\ UNCHANGED <<fwc_pc, holders, kill_flag, final_working, returned, signalled, listed,
                   kill_result, respawns>>
    /\ UNCHANGED <<captureVars, poolVars, rateVars, slotVars, probeVars, protoVars>>

(* kill_device_holders line 1011: pids.discard(os.getpid()) *)
DiscardOwn(pids) == pids \ {OwnPid}

(* os.kill(pid, sig) raises PermissionError for a process of another user *)
MaySignal(pid) == pid # "foreign"

(* test_single_camera lines 1073-1074 and kill_device_holders lines 1005-1037.        *)
(* Every listed pid other than the own one is sent SIGTERM, and SIGKILL if it is      *)
(* still alive after the grace time; a PermissionError runs `sudo fuser -k <device>`, *)
(* which, if sudo lets it run, kills every process that has the device open.          *)
Probe1Kill(i, fuserRuns) ==
    /\ fwc_pc = "pass1" /\ probe_pc[i] = "kill"
    /\ listed' = TRUE
    /\ LET pids == DiscardOwn(holders[i])
           escalated == \E p \in pids : ~MaySignal(p)
           direct == {p \in pids : MaySignal(p)}
           byFuser == IF escalated /\ fuserRuns THEN holders[i] ELSE {}
       IN IF pids = {}
          THEN /\ kill_result' = [kill_result EXCEPT ![i] = Some(FALSE)]
               /\ probe_pc' = [probe_pc EXCEPT ![i] = "done"]
               /\ UNCHANGED <<signalled, holders, fwc_pc>>
          ELSE /\ kill_result' = [kill_result EXCEPT ![i] = Some(TRUE)]
               /\ signalled' = signalled \cup direct \cup byFuser
               /\ holders' = [holders EXCEPT ![i] = (@ \ direct) \ byFuser]
               /\ probe_pc' = [probe_pc EXCEPT ![i] = "retry"]
               /\ fwc_pc' = IF OwnPid \in byFuser THEN "killed" ELSE fwc_pc
    /\ UNCHANGED <<kill_flag, working, final_working, returned, respawns>>
    /\ UNCHANGED <<captureVars, poolVars, rateVars, slotVars, probeVars, protoVars>>

(* test_single_camera lines 1075-1081: the tries after the kill; the future completes *)
Probe1Retry(i) ==
    /\ fwc_pc = "pass1" /\ probe_pc[i] = "retry"
    /\ working' = IF CanOpen(i) THEN Append(working, i) ELSE working
    /\ probe_pc' = [probe_pc EXCEPT ![i] = "done"]
    /\ UNCHANGED <<fwc_pc, holders, kill_flag, final_working, returned, signalled, listed,
                   kill_result, respawns>>
    /\ UNCHANGED <<captureVars, poolVars, rateVars, slotVars, probeVars, protoVars>>

(* find_working_cameras lines 1116-1125: the first pass is over *)
Pass1Done ==
    /\ fwc_pc = "pass1"
    /\ \A i \in Idx : probe_pc[i] \in {"none", "done"}
    /\ IF working = <<>>
       THEN /\ fwc_pc' = "done"
            /\ returned' = working
            /\ UNCHANGED probe_pc
       ELSE /\ fwc_pc' = "pass2"
            /\ probe_pc' = [i \in Idx |-> IF i \in Elems(working) THEN "try2" ELSE "none"]
            /\ UNCHANGED returned
    /\ UNCHANGED <<holders, kill_flag, working, final_working, signalled, listed,
                   kill_result, respawns>>
    /\ UNCHANGED <<captureVars, poolVars, rateVars, slotVars, probeVars, protoVars>>

(* lines 1119-1130: test_single_camera(idx, retries=2, retry_delay=0.15, allow_kill=False) *)
(* in a pool thread; the future completes and its result goes to final_working.append     *)
Probe2(i) ==
    /\ fwc_pc = "pass2" /\ probe_pc[i] = "try2"
    /\ final_working' = IF CanOpen(i) THEN Append(final_working, i) ELSE final_working
    /\ probe_pc' = [probe_pc EXCEPT ![i] = "done2"]
    /\ UNCHANGED <<fwc_pc, holders, kill_flag, working, returned, signalled, listed,
                   kill_result, respawns>>
    /\ UNCHANGED <<captureVars, poolVars, rateVars, slotVars, probeVars, protoVars>>

(* lines 1131-1134: working = final_working; return working *)
ReturnedFirstPass(first, second) == first
Returned(first, second) == second

FwcReturn ==
    /\ fwc_pc = "pass2"
    /\ \A i \in Idx : probe_pc[i] \in {"none", "done2"}
    /\ returned' = Returned(working, final_working)
    /\ fwc_pc' = "done"
    /\ UNCHANGED <<holders, kill_flag, probe_pc, working, final_working, signalled, listed,
                   kill_result, respawns>>
    /\ UNCHANGED <<captureVars, poolVars, rateVars, slotVars, probeVars, protoVars>>

(* a holder that was killed is started again by its supervisor and reopens the device *)
HolderReturns(i) ==
    /\ fwc_pc \in {"pass1", "pass2"}
    /\ respawns < MaxRespawns
    /\ "mine" \in signalled
    /\ dev[i] = "ok" /\ holders[i] = {}
    /\ kill_result[i] = Some(TRUE)
    /\ holders' = [holders EXCEPT ![i] = {"mine"}]
    /\ respawns' = respawns + 1
    /\ UNCHANGED <<fwc_pc, kill_flag, probe_pc, working, final_working, returned, signalled,
                   listed, kill_result>>
    /\ UNCHANGED <<captureVars, poolVars, rateVars, slotVars, probeVars, protoVars>>

DiscNext ==
    \/ FwcStart
    \/ \E i \in Idx : Probe1Try(i)
    \/ \E i \in Idx, fuserRuns \in BOOLEAN : Probe1Kill(i, fuserRuns)
    \/ \E i \in Idx : Probe1Retry(i)
    \/ Pass1Done
    \/ \E i \in Idx : Probe2(i)
    \/ FwcReturn
    \/ \E i \in Idx : HolderReturns(i)

(* ====================================================================== *)
(* Part 6: one call of test_single_camera (main.py) or of                  *)
(* kill_device_holders (utils/helpers.py), statement by statement: the     *)
(* open attempts, the two process listings, the SIGTERM loop, the grace    *)
(* wait and the SIGKILL loop. The processes that hold the device may exit  *)
(* at any moment.                                                          *)
(* ====================================================================== *)
(* the defaults of test_single_camera and the arguments of its callers *)
DefaultRetries == 3
DefaultPostKillRetries == 2
ConfirmRetries == 2
RescanRetries == 2
UnitTestRetries == 1

(* the calls: find_working_cameras' first pass (line 1109), its second pass (lines 1119-1125), *)
(* rescan_and_attach (lines 1386-1391), the unit tests' call, and kill_device_holders of       *)
(* utils/helpers.py called by itself with KILL_DEVICE_HOLDERS on or off                        *)
ProbeCalls ==
    {[entry |-> "test_single_camera", site |-> "first_pass", retries |-> DefaultRetries,
      allow_kill |-> TRUE, post_kill_retries |-> DefaultPostKillRetries, checks_flag |-> FALSE, flag |-> TRUE],
     [entry |-> "test_single_camera", site |-> "second_pass", retries |-> ConfirmRetries,
      allow_kill |-> FALSE, post_kill_retries |-> DefaultPostKillRetries, checks_flag |-> FALSE, flag |-> TRUE],
     [entry |-> "test_single_camera", site |-> "rescan", retries |-> RescanRetries,
      allow_kill |-> FALSE, post_kill_retries |-> DefaultPostKillRetries, checks_flag |-> FALSE, flag |-> TRUE],
     [entry |-> "test_single_camera", site |-> "unit_test", retries |-> UnitTestRetries,
      allow_kill |-> TRUE, post_kill_retries |-> DefaultPostKillRetries, checks_flag |-> FALSE, flag |-> TRUE]}
KillCalls ==
    {[entry |-> "kill_device_holders", site |-> "helpers", retries |-> 0,
      allow_kill |-> TRUE, post_kill_retries |-> 0, checks_flag |-> TRUE, flag |-> f] : f \in BOOLEAN}

(* no call is being made *)
ProbeIdle ==
    /\ call = [entry |-> "none", site |-> "none", retries |-> 0, allow_kill |-> FALSE,
               post_kill_retries |-> 0, checks_flag |-> FALSE, flag |-> FALSE]
    /\ p_pc = "idle"
    /\ p_dev = "absent"
    /\ p_holders = {}
    /\ attempts = 0
    /\ post_left = 0
    /\ opened = FALSE
    /\ p_result = "pending"
    /\ lsof_out = None
    /\ fuser_out = None
    /\ p_pids = {}
    /\ p_todo = {}
    /\ sent = <<>>
    /\ killed = None

(* a call is about to be made on some device with some holders *)
ProbeInit ==
    /\ call \in ProbeCalls \cup KillCalls
    /\ p_pc = "call"
    /\ p_dev \in DevStates
    /\ p_holders \in SUBSET Pids
    /\ attempts = 0
    /\ post_left = 0
    /\ opened = FALSE
    /\ p_result = "pending"
    /\ lsof_out = None
    /\ fuser_out = None
    /\ p_pids = {}
    /\ p_todo = {}
    /\ sent = <<>>
    /\ killed = None

(* try_open lines 1053-1066: VideoCapture opens and grab() succeeds; a held device is busy *)
TryOpenOk == p_dev = "ok" /\ p_holders = {}

(* test_single_camera is entered *)
ProbeEnter ==
    /\ p_pc = "call" /\ call.entry = "test_single_camera"
    /\ p_pc' = IF call.retries > 0 THEN "try" ELSE "after_retries"
    /\ UNCHANGED <<call, p_dev, p_holders, attempts, post_left, opened, p_result,
                   lsof_out, fuser_out, p_pids, p_todo, sent, killed>>
    /\ UNCHANGED <<captureVars, poolVars, rateVars, slotVars, discVars, protoVars>>

(* lines 1068-1071: for _ in range(retries): if try_open(): return cam_index; sleep *)
ProbeTry ==
    /\ p_pc = "try"
    /\ attempts' = attempts + 1
    /\ IF TryOpenOk
       THEN /\ opened' = TRUE
            /\ p_result' = "index"
            /\ p_pc' = "done"
       ELSE /\ UNCHANGED <<opened, p_result>>
            /\ p_pc' = IF attempts' < call.retries THEN "try" ELSE "after_retries"
    /\ UNCHANGED <<call, p_dev, p_holders, post_left, lsof_out, fuser_out, p_pids, p_todo, sent, killed>>
    /\ UNCHANGED <<captureVars, poolVars, rateVars, slotVars, discVars, protoVars>>

(* line 1073: if allow_kill *)
MayKillAlways(c) == TRUE
MayKill(c) == c.allow_kill

(* lines 1073-1074 and 1081: kill_device_holders is called, or None is returned *)
ProbeAfterRetries ==
    /\ p_pc = "after_retries"
    /\ IF MayKill(call)
       THEN /\ p_pc' = "kill_enter"
            /\ UNCHANGED p_result
       ELSE /\ p_pc' = "done"
            /\ p_result' = "None"
    /\ UNCHANGED <<call, p_dev, p_holders, attempts, post_left, opened,
                   lsof_out, fuser_out, p_pids, p_todo, sent, killed>>
    /\ UNCHANGED <<captureVars, poolVars, rateVars, slotVars, discVars, protoVars>>

(* kill_device_holders of utils/helpers.py is called by itself *)
KillCall ==
    /\ p_pc = "call" /\ call.entry = "kill_device_holders"
    /\ p_pc' = "kill_enter"
    /\ UNCHANGED <<call, p_dev, p_holders, attempts, post_left, opened, p_result,
                   lsof_out, fuser_out, p_pids, p_todo, sent, killed>>
    /\ UNCHANGED <<captureVars, poolVars, rateVars, slotVars, discVars, protoVars>>

(* helpers.py lines 71-74: if not config.KILL_DEVICE_HOLDERS: return False; main.py's copy *)
(* (line 1005) has no such test                                                           *)
KillEnter ==
    /\ p_pc = "kill_enter"
    /\ IF call.checks_flag /\ ~call.flag
       THEN /\ killed' = Some(FALSE)
            /\ p_pc' = "kill_return"
       ELSE /\ UNCHANGED killed
            /\ p_pc' = "lsof"
    /\ UNCHANGED <<call, p_dev, p_holders, attempts, post_left, opened, p_result,
                   lsof_out, fuser_out, p_pids, p_todo, sent>>
    /\ UNCHANGED <<captureVars, poolVars, rateVars, slotVars, discVars, protoVars>>

(* what a listing command prints: the holders, or nothing when the command fails *)
Listings == {p_holders, {}}

(* helpers.py lines 76-77: pids = get_pids_from_lsof(device_path); if not pids *)
KillLsof ==
    /\ p_pc = "lsof"
    /\ \E out \in Listings :
          /\ lsof_out' = Some(out)
          /\ p_pids' = out
          /\ p_pc' = IF out = {} THEN "fuser" ELSE "discard"
    /\ UNCHANGED <<call, p_dev, p_holders, attempts, post_left, opened, p_result,
                   fuser_out, p_todo, sent, killed>>
    /\ UNCHANGED <<captureVars, poolVars, rateVars, slotVars, discVars, protoVars>>

(* helpers.py line 78: pids = get_pids_from_fuser(device_path) *)
KillFuser ==
    /\ p_pc = "fuser"
    /\ \E out \in Listings :
          /\ fuser_out' = Some(out)
          /\ p_pids' = out
    /\ p_pc' = "discard"
    /\ UNCHANGED <<call, p_dev, p_holders, attempts, post_left, opened, p_result,
                   lsof_out, p_todo, sent, killed>>
    /\ UNCHANGED <<captureVars, poolVars, rateVars, slotVars, discVars, protoVars>>

(* helpers.py lines 80-82: pids.discard(os.getpid()); if not pids: return False *)
KillDiscard ==
    /\ p_pc = "discard"
    /\ p_pids' = DiscardOwn(p_pids)
    /\ IF p_pids' = {}
       THEN /\ killed' = Some(FALSE)
            /\ p_pc' = "kill_return"
            /\ UNCHANGED p_todo
       ELSE /\ UNCHANGED killed
            /\ p_todo' = p_pids'
            /\ p_pc' = "term"
    /\ UNCHANGED <<call, p_dev, p_holders, attempts, post_left, opened, p_result,
                   lsof_out, fuser_out, sent>>
    /\ UNCHANGED <<captureVars, poolVars, rateVars, slotVars, discVars, protoVars>>

(* helpers.py lines 90-91: run_cmd("sudo fuser -k ..."); break: the pids left to the loop *)
AfterPermissionErrorContinue(rest) == rest
AfterPermissionError(rest) == {}

(* `sudo fuser -k` either fails (no passwordless sudo) or ends every process that holds *)
(* the device, the caller included when it holds the device itself                     *)
Escalation(runs) ==
    IF runs
    THEN /\ p_holders' = {}
         /\ p_pc' = IF OwnPid \in p_holders THEN "killed" ELSE p_pc
    ELSE UNCHANGED <<p_holders, p_pc>>

(* helpers.py lines 86-93: one round of the SIGTERM loop; a set is iterated in any order; *)
(* os.kill raises ProcessLookupError for a process that is gone (logged, the loop goes    *)
(* on) and PermissionError for one of another user                                        *)
KillTerm ==
    /\ p_pc = "term" /\ p_todo # {}
    /\ \E pid \in p_todo :
          IF pid \notin p_holders
          THEN /\ p_todo' = p_todo \ {pid}
               /\ UNCHANGED <<sent, p_holders, p_pc>>
          ELSE IF MaySignal(pid)
          THEN /\ sent' = Append(sent, <<"SIGTERM", pid>>)
               /\ p_todo' = p_todo \ {pid}
               /\ UNCHANGED <<p_holders, p_pc>>
          ELSE /\ sent' = Append(sent, <<"escalate", pid>>)
               /\ p_todo' = AfterPermissionError(p_todo \ {pid})
               /\ \E runs \in BOOLEAN : Escalation(runs)
    /\ UNCHANGED <<call, p_dev, attempts, post_left, opened, p_result,
                   lsof_out, fuser_out, p_pids, killed>>
    /\ UNCHANGED <<captureVars, poolVars, rateVars, slotVars, discVars, protoVars>>

(* helpers.py line 95: the loop is over; time.sleep(grace) *)
KillGrace ==
    /\ p_pc = "term" /\ p_todo = {}
    /\ sent' = Append(sent, <<"sleep", "grace">>)
    /\ p_todo' = p_pids
    /\ p_pc' = "sigkill"
    /\ UNCHANGED <<call, p_dev, p_holders, attempts, post_left, opened, p_result,
                   lsof_out, fuser_out, p_pids, killed>>
    /\ UNCHANGED <<captureVars, poolVars, rateVars, slotVars, discVars, protoVars>>

(* is_pid_alive lines 57-63: os.kill(pid, 0) succeeds; any exception, the PermissionError *)
(* for a live process of another user included, gives False                              *)
is_pid_alive(pid) == pid \in p_holders /\ MaySignal(pid)

(* helpers.py lines 97-104: one round of the SIGKILL loop; a process that is_pid_alive *)
(* reports alive can be signalled, and SIGKILL ends it                                 *)
KillForce ==
    /\ p_pc = "sigkill" /\ p_todo # {}
    /\ \E pid \in p_todo :
          /\ p_todo' = p_todo \ {pid}
          /\ IF is_pid_alive(pid)
             THEN /\ sent' = Append(sent, <<"SIGKILL", pid>>)
                  /\ p_holders' = p_holders \ {pid}
             ELSE UNCHANGED <<sent, p_holders>>
    /\ UNCHANGED <<call, p_pc, p_dev, attempts, post_left, opened, p_result,
                   lsof_out, fuser_out, p_pids, killed>>
    /\ UNCHANGED <<captureVars, poolVars, rateVars, slotVars, discVars, protoVars>>

(* helpers.py line 106: return True *)
KillDone ==
    /\ p_pc = "sigkill" /\ p_todo = {}
    /\ killed' = Some(TRUE)
    /\ p_pc' = "kill_return"
    /\ UNCHANGED <<call, p_dev, p_holders, attempts, post_left, opened, p_result,
                   lsof_out, fuser_out, p_pids, p_todo, sent>>
    /\ UNCHANGED <<captureVars, poolVars, rateVars, slotVars, discVars, protoVars>>

(* main.py lines 1074-1076: killed = kill_device_holders(device_path); if killed: the second loop *)
KillReturn ==
    /\ p_pc = "kill_return"
    /\ IF call.entry = "test_single_camera" /\ killed = Some(TRUE) /\ call.post_kill_retries > 0
       THEN /\ post_left' = call.post_kill_retries
            /\ p_pc' = "post"
            /\ UNCHANGED p_result
       ELSE /\ p_pc' = "done"
            /\ p_result' = IF call.entry = "test_single_camera" THEN "None" ELSE p_result
            /\ UNCHANGED post_left
    /\ UNCHANGED <<call, p_dev, p_holders, attempts, opened,
                   lsof_out, fuser_out, p_pids, p_todo, sent, killed>>
    /\ UNCHANGED <<captureVars, poolVars, rateVars, slotVars, discVars, protoVars>>

(* main.py lines 1076-1079: for _ in range(post_kill_retries): if try_open(): return cam_index *)
ProbePostTry ==
    /\ p_pc = "post"
    /\ attempts' = attempts + 1
    /\ post_left' = post_left - 1
    /\ IF TryOpenOk
       THEN /\ opened' = TRUE
            /\ p_result' = "index"
            /\ p_pc' = "done"
       ELSE /\ UNCHANGED opened
            /\ p_result' = IF post_left' = 0 THEN "None" ELSE p_result
            /\ p_pc' = IF post_left' = 0 THEN "done" ELSE "post"
    /\ UNCHANGED <<call, p_dev, p_holders, lsof_out, fuser_out, p_pids, p_todo, sent, killed>>
    /\ UNCHANGED <<captureVars, poolVars, rateVars, slotVars, discVars, protoVars>>

(* a process that holds the device exits, after a SIGTERM or by itself *)
HolderExits(pid) ==
    /\ p_pc \notin {"idle", "call", "done", "killed"}
    /\ pid \in p_holders /\ pid # OwnPid
    /\ p_holders' = p_holders \ {pid}
    /\ UNCHANGED <<call, p_pc, p_dev, attempts, post_left, opened, p_result,
                   lsof_out, fuser_out, p_pids, p_todo, sent, killed>>
    /\ UNCHANGED <<captureVars, poolVars, rateVars, slotVars, discVars, protoVars>>

ProbeNext ==
    \/ ProbeEnter
    \/ ProbeTry
    \/ ProbeAfterRetries
    \/ KillCall
    \/ KillEnter
    \/ KillLsof
    \/ KillFuser
    \/ KillDiscard
    \/ KillTerm
    \/ KillGrace
    \/ KillForce
    \/ KillDone
    \/ KillReturn
    \/ ProbePostTry
    \/ \E pid \in Pids : HolderExits(pid)

(* ====================================================================== *)
(* Part 7: the CaptureWorker of the prototype (src/test.py): it reconnects *)
(* when it has no opened handle or when no good frame has arrived for      *)
(* zero_fps_threshold seconds. Time is counted in ticks as in Part 1; the  *)
(* time since last_good_frame_time saturates just above the threshold.     *)
(* ====================================================================== *)
ZeroFpsThresholdSec == 3
ProtoExceptionSleepMs == 500
FrameSleepMs == 10
ZeroFpsTicks == ZeroFpsThresholdSec * TicksPerSec
(* time.time() - last_good_frame_time after d more ticks *)
Later(since, d) == Min(since + d, ZeroFpsTicks + 1)
(* how long VideoCapture(...) or read() may take, in ticks *)
ProtoLatency == {0, TicksPerSec}
ProtoSrcStates == {"ok", "gone", "faulty"}

(* no prototype worker exists *)
ProtoIdle ==
    /\ q_pc = "idle"
    /\ q_cap = "none"
    /\ q_src = "ok"
    /\ q_since = 0
    /\ q_backoff = BaseBackoffSec * TicksPerSec
    /\ q_status = "none"
    /\ q_fresh = FALSE
    /\ q_events = 0

(* __init__ lines 29-42 and QThread.start() *)
ProtoInit ==
    /\ q_pc = "loop"
    /\ q_cap = "none"
    /\ q_src \in ProtoSrcStates
    /\ q_since = 0
    /\ q_backoff = BaseBackoffSec * TicksPerSec
    /\ q_status = "none"
    /\ q_fresh = FALSE
    /\ q_events = 0

(* _needs_reconnect lines 76-87 *)
NeedsReconnect(c, since) == c # "open" \/ since > ZeroFpsTicks

(* run lines 47-52: while self._running: if self._needs_reconnect() *)
ProtoLoop ==
    /\ q_pc = "loop"
    /\ q_pc' = IF NeedsReconnect(q_cap, q_since) THEN "reconnect" ELSE "read"
    /\ UNCHANGED <<q_cap, q_src, q_since, q_backoff, q_status, q_fresh, q_events>>
    /\ UNCHANGED <<captureVars, poolVars, rateVars, slotVars, discVars, probeVars>>

(* _trigger_reconnect lines 89-103 with _open_capture lines 121-134: close, open; on       *)
(* failure sleep the backoff, grow it and emit offline; on success emit online and reset it *)
ProtoReconnect ==
    /\ q_pc = "reconnect"
    /\ \E d \in ProtoLatency :
          IF q_src = "gone"
          THEN /\ q_cap' = "none"
               /\ q_since' = Later(q_since, d + q_backoff)
               /\ q_backoff' = NextBackoff(q_backoff)
               /\ q_status' = "offline"
               /\ q_fresh' = FALSE
          ELSE /\ q_cap' = "open"
               /\ q_since' = Later(q_since, d)
               /\ q_backoff' = BaseBackoffSec * TicksPerSec
               /\ q_status' = "online"
               /\ q_fresh' = TRUE
    /\ q_pc' = "loop"
    /\ UNCHANGED <<q_src, q_events>>
    /\ UNCHANGED <<captureVars, poolVars, rateVars, slotVars, discVars, probeVars>>

(* run lines 54-68 and 70-72: read(); a failure closes the handle and emits offline, a    *)
(* frame resets last_good_frame_time and is emitted, an exception is followed by a sleep *)
ProtoRead ==
    /\ q_pc = "read"
    /\ q_fresh' = FALSE
    /\ \E d \in ProtoLatency :
          CASE q_src = "ok" ->
                  /\ q_since' = FrameSleepMs * TicksPerMs
                  /\ UNCHANGED <<q_cap, q_status>>
            [] q_src = "gone" ->
                  /\ q_cap' = "none"
                  /\ q_status' = "offline"
                  /\ q_since' = Later(q_since, d)
            [] q_src = "faulty" ->
                  /\ q_since' = Later(q_since, d + ProtoExceptionSleepMs * TicksPerMs)
                  /\ UNCHANGED <<q_cap, q_status>>
    /\ q_pc' = "loop"
    /\ UNCHANGED <<q_src, q_backoff, q_events>>
    /\ UNCHANGED <<captureVars, poolVars, rateVars, slotVars, discVars, probeVars>>

(* the camera is unplugged, plugged in again, or its driver starts or stops to fail *)
ProtoSourceChange(s) ==
    /\ q_pc # "idle"
    /\ s # q_src
    /\ q_events < MaxEvents
    /\ q_events' = q_events + 1
    /\ q_src' = s
    /\ UNCHANGED <<q_pc, q_cap, q_since, q_backoff, q_status, q_fresh>>
    /\ UNCHANGED <<captureVars, poolVars, rateVars, slotVars, discVars, probeVars>>

ProtoWorker == ProtoLoop \/ ProtoReconnect \/ ProtoRead
ProtoNext ==
    \/ ProtoLoop
    \/ ProtoReconnect
    \/ ProtoRead
    \/ \E s \in ProtoSrcStates : ProtoSourceChange(s)

(* ====================================================================== *)
(* The specifications                                                     *)
(* ====================================================================== *)
(* Part 1 alone: the pool is not used and no timer tick happens *)
Init == WorkerInit /\ FramePoolInit /\ RateIdle /\ SlotIdle /\ DiscIdle /\ ProbeIdle /\ ProtoIdle

Next ==
    \/ start
    \/ WorkerNext
    \/ UINext
    \/ \E s \in SrcStates : SourceChange(s)
    \/ Advance

Spec == Init /\ [][Next]_vars

(* the same program on a backend whose handles may stop reporting opened *)
BackendNext ==
    \/ Next
    \/ HandleDrops
BackendSpec == Init /\ [][BackendNext]_vars

(* the threads and the clock keep going; no further call and no source change need happen *)
FairSpec == Spec /\ WF_vars(start) /\ WF_vars(WorkerNext) /\ WF_vars(Advance)
                 /\ WF_vars(FpsValidate \/ FpsInterval \/ FpsCache \/ FpsPush \/ FpsReturn)
                 /\ WF_vars(StopWaitReturn \/ StopRelease \/ StopNone)

(* Part 2 alone: the threads use the pool; the capture state stays as constructed *)
PoolInit == WorkerInit /\ target_fps = None /\ FramePoolInit /\ RateIdle /\ SlotIdle /\ DiscIdle /\ ProbeIdle /\ ProtoIdle
PoolSpec == PoolInit /\ [][PoolNext]_vars

(* Part 3 alone: the timer ticks and cameras are attached *)
RateSpecInit == WorkerInit /\ target_fps = None /\ FramePoolInit /\ RateInit /\ SlotIdle /\ DiscIdle /\ ProbeIdle /\ ProtoIdle
RateSpec == RateSpecInit /\ [][RateNext]_vars
(* Part 3 with a timer that keeps firing: a QTimer that was started fires every interval; *)
(* the widgets as the slot loop makes them (lines 1250-1280): the first slots are the     *)
(* cameras, all constructed with the same target_fps                                      *)
RecoverInit ==
    /\ \E k \in 0..CAMERA_SLOT_COUNT : camera_widgets = 1..k
    /\ \A v, w \in camera_widgets : base_target_fps[v] = base_target_fps[w]
RecoverSpecInit == RateSpecInit /\ RecoverInit
RecoverSpec == RecoverSpecInit /\ [][RecoverNext]_vars /\ WF_vars(PerfTick)

(* Part 4 alone: the slots, the rescan timer and SIGINT *)
SlotSpecInit == WorkerInit /\ target_fps = None /\ FramePoolInit /\ NoWidgets /\ SlotInit /\ DiscIdle /\ ProbeIdle /\ ProtoIdle
SlotSpec == SlotSpecInit /\ [][SlotNext]_vars

(* Part 5 alone: find_working_cameras runs before main creates the slots *)
DiscSlots ==
    /\ SlotInit
    /\ working_cameras = <<>>
    /\ clock = 0
DiscSpecInit == WorkerInit /\ target_fps = None /\ FramePoolInit /\ NoWidgets /\ DiscSlots /\ DiscInit /\ ProbeIdle /\ ProtoIdle
DiscSpec == DiscSpecInit /\ [][DiscNext]_vars

TypeOK ==
    /\ running \in BOOLEAN
    /\ cap \in {"none", "open", "closed"}
    /\ lcap \in {"none", "open"}
    /\ wTimer >= 0 /\ stopWait >= 0
    /\ sinceEmit \in 0..SinceCap /\ sinceFrame \in 0..SinceCap /\ sinceNow \in 0..SinceCap
    /\ status \in {"none", "online", "offline"}
    /\ src \in SrcStates
    /\ events \in 0..MaxEvents

(* Part 6 alone: one call of test_single_camera or kill_device_holders *)
ProbeSpecInit ==
    WorkerInit /\ target_fps = None /\ FramePoolInit /\ RateIdle /\ SlotIdle /\ DiscIdle /\ ProbeInit /\ ProtoIdle
ProbeSpec == ProbeSpecInit /\ [][ProbeNext]_vars

(* Part 7 alone: the prototype worker; its thread keeps running *)
ProtoSpecInit ==
    WorkerInit /\ target_fps = None /\ FramePoolInit /\ RateIdle /\ SlotIdle /\ DiscIdle /\ ProbeIdle /\ ProtoInit
ProtoSpec == ProtoSpecInit /\ [][ProtoNext]_vars
ProtoFairSpec == ProtoSpec /\ WF_vars(ProtoWorker)

(* ====================================================================== *)
(* Properties of the capture worker                                       *)
(* ====================================================================== *)
StopPcs == {"stop_wait", "stop_release", "stop_none"}
UIStep == uiPc' # uiPc
WorkerStep == wPc' # wPc

(* C1: whenever the source of a worker that reported online stalls or vanishes, *)
(* the worker later emits a frame again or emits an offline status (unless it  *)
(* is being stopped): the slot does not stay online without frames forever.    *)
C1_Liveness ==
    (status = "online" /\ src # "ok" /\ ~fresh /\ running)
        ~> (fresh \/ status = "offline" \/ ~running)

(* C2: the thread leaves the capture loop only at the loop head with running   *)
(* false; a fault in the loop body is followed by the fixed 0.2 s sleep and    *)
(* then the next iteration.                                                    *)
C2_Step ==
    /\ (wPc' \in {"final_close", "done"} /\ WorkerStep)
          => \/ wPc = "loop" /\ ~running
             \/ wPc = "final_close"
    /\ (wPc' = "exc_sleep" /\ WorkerStep) => wTimer' = ExceptionSleepMs * TicksPerMs
    /\ (wPc = "exc_sleep" /\ WorkerStep) => wPc' = "loop"
C2_LoopSurvives == [][C2_Step]_vars
C2_Witness == wPc = "exc_sleep" /\ running /\ status = "online"

(* C3: reconnect_backoff stays within [1 s, 10 s]; a failed open sleeps the     *)
(* current value and then sets it to min(value * 1.5, 10 s), never lowering    *)
(* it; a successful open sets it to 1 s; nothing else changes it.              *)
C3_InRange ==
    /\ reconnect_backoff >= BaseBackoffSec * TicksPerSec
    /\ reconnect_backoff <= MAX_RECONNECT_BACKOFF_SEC * TicksPerSec
C3_Step ==
    /\ (wPc = "ensure_check" /\ wPc' = "backoff_sleep") => wTimer' = reconnect_backoff
    /\ (wPc = "backoff_sleep" /\ WorkerStep)
          => /\ reconnect_backoff' >= reconnect_backoff
             /\ \/ BackoffMulDen * reconnect_backoff' = BackoffMulNum * reconnect_backoff
                \/ /\ reconnect_backoff' = MAX_RECONNECT_BACKOFF_SEC * TicksPerSec
                   /\ BackoffMulNum * reconnect_backoff >= BackoffMulDen * reconnect_backoff'
    /\ (wPc = "ensure_check" /\ wPc' = "grab") => reconnect_backoff' = BaseBackoffSec * TicksPerSec
    /\ (reconnect_backoff' # reconnect_backoff) => wPc \in {"backoff_sleep", "ensure_check"}
C3_Backoff == []C3_InRange /\ [][C3_Step]_vars
C3_Witness ==
    /\ reconnect_backoff = MAX_RECONNECT_BACKOFF_SEC * TicksPerSec
    /\ wPc = "backoff_sleep"

(* C4 as stated: a frame is emitted only through the gate, and two consecutive *)
(* frames of a worker are emitted at least the emit interval apart.            *)
C4_EmitsApart ==
    [][(wPc = "emit" /\ wPc' = "loop") => ~RatLess(TicksAsSec(sinceFrame), lInterval)]_vars

(* C4 amended: retrieve is called only after a successful grab and only when   *)
(* now - lastEmitTime >= the emit interval read in that iteration, a frame is  *)
(* emitted only in such an iteration, and lastEmitTime becomes that now: the   *)
(* gate timestamps of consecutive emitting iterations are an interval apart.   *)
C4_Step ==
    /\ (wPc' = "gate" /\ WorkerStep) => (wPc = "grab" /\ cap = "open" /\ src = "ok")
    /\ (wPc' = "retrieve_wait" /\ WorkerStep)
          => /\ wPc = "gate"
             /\ sinceEmit * lInterval'[2] >= lInterval'[1] * TicksPerSec
             /\ lInterval' = cached_emit_interval
             /\ sinceNow' = 0
    /\ (wPc' = "emit" /\ WorkerStep) => wPc = "downsample"
    /\ (wPc' = "downsample" /\ WorkerStep) => wPc = "retrieve_wait"
    /\ (wPc \in {"retrieve_wait", "downsample"} /\ ~WorkerStep) => lInterval' = lInterval
    /\ (sinceFrame' < sinceFrame) => (wPc = "emit" /\ wPc' = "loop" /\ sinceEmit' = sinceNow)
C4_GateTimestampsApart == [][C4_Step]_vars
C4_Witness == wPc = "emit" /\ sinceEmit < SinceCap /\ sinceNow > 0

(* C5: once stop() has returned, the handle is released and stays released:    *)
(* cap is None and the thread holds no opened handle.                          *)
C5_StaysReleased == stopReturns >= 1 => (cap = "none" /\ lcap = "none")

(* C6: the wait of stop() never ends by its 2000 ms running out: the loop has  *)
(* exited by then, whatever the worker was doing when stop() was called.       *)
C6_ExitsWithinWait ==
    [][(uiPc = "stop_wait" /\ uiPc' = "stop_release") => ThreadFinished]_vars

(* C7: every stop() returns without an error, leaving running false and the    *)
(* handle released, the second call as the first; a repeated stop() on a       *)
(* worker whose thread has finished changes nothing of the worker.             *)
C7_Step ==
    /\ (uiPc = "stop_none" /\ UIStep) => (uiPc' = "idle" /\ ~running' /\ cap' = "none")
    /\ (uiPc = "stop_release" /\ UIStep) => uiPc' = "stop_none"
    /\ (stopReturns >= 1 /\ ThreadFinished /\ UIStep /\ (uiPc \in StopPcs \/ uiPc' \in StopPcs))
          => UNCHANGED <<workerVars, wPc, status>>
C8_Rejected == uiArg = None \/ uiArg[1] <= 0
C8_Step ==
    /\ (uiPc \in {"fps_validate", "fps_return"} /\ UIStep /\ C8_Rejected)
          => /\ UNCHANGED <<target_fps, emit_interval, cached_emit_interval, capFps>>
             /\ uiPc' \in {"fps_return", "idle"}
    /\ (uiPc = "fps_return" /\ UIStep /\ ~C8_Rejected) => target_fps = uiArg
C8_Validates == [][C8_Step]_vars
C8_Witness == uiPc = "fps_return" /\ uiArg = Some(0) /\ cap = "open"

(* C9 as stated: when set_target_fps(fps) with fps > 0 returns, emit_interval    *)
(* is 1/fps and the cached interval of the gate equals it.                      *)
C9_Returns == uiPc = "fps_push" /\ uiPc' = "fps_return"
C9_Step ==
    (C9_Returns /\ ~raced)
        => /\ uiArg[1] >= FpsDen => RatEq(emit_interval', <<FpsDen, uiArg[1]>>)
           /\ uiArg[1] < FpsDen => RatEq(emit_interval', <<1, 1>>)
           /\ RatEq(cached_emit_interval', emit_interval')
C10_Policy(f) ==
    IF f <= MinValidFps * FpsDen \/ f > MaxValidFps * FpsDen THEN <<1, DefaultFps>> ELSE <<FpsDen, f>>
C10_Step ==
    /\ (wPc = "cfg_store" /\ WorkerStep) => RatEq(emit_interval', C10_Policy(lFps))
    /\ (uiPc = "fps_interval" /\ UIStep) => RatEq(emit_interval', C10_Policy(uiArg[1]))
C10_DefaultSubstituted == [][C10_Step]_vars

(* C11: once set_target_fps(f) has returned and until the next call, every     *)
(* check of the rate gate uses an emit interval derived from f (1/max(1, f), or *)
(* the interval _configure_fps_from_camera computes from f), whatever the       *)
(* worker thread's own open/configure step was doing during the call.           *)
C11_Derived(f) == {RuntimeInterval(f), ConfiguredInterval(f)}
C11_GateUsesInterval == wPc = "gate" /\ WorkerStep
C11_GateUsesCurrentTarget ==
    [][(C11_GateUsesInterval /\ uiPc \notin {"fps_validate", "fps_interval", "fps_cache", "fps_push"}
         /\ TargetSet(target_fps))
          => \E d \in C11_Derived(target_fps[1]) : RatEq(cached_emit_interval, d)]_vars

(* C12: for a worker constructed with target fps f0, the first call            *)
(* set_target_fps(f1) with 0 < f1 < f0 returns with emit_interval strictly      *)
(* larger than it was when the call was made, opened handle or not.             *)
C12_FirstCallLowers ==
    /\ uiPc = "fps_push" /\ uiPc' = "fps_return"
    /\ events = 1
    /\ TargetSet(callSnap[1])
    /\ uiArg[1] < callSnap[1][1]
C12_IntervalGrows == [][C12_FirstCallLowers => RatLess(callSnap[2], emit_interval')]_vars

(* ====================================================================== *)
(* Properties of the frame pool                                           *)
(* ====================================================================== *)
Range(s) == {s[i] : i \in 1..Len(s)}
(* thread t takes its look into the pool: the step of get at self._pool.pop() *)
PopStep(t) == tpc[t] = "get_pop" /\ tpc'[t] # "get_pop"
(* the array this get will return from the pool, NoBuf when it will allocate *)
PoolHit(t) == IF tpc'[t] = "get_check" /\ Matches(tframe'[t], treq[t]) THEN tframe'[t] ELSE NoBuf
MatchingIdle(t) == {b \in Range(pool) : Matches(b, treq[t])}

(* C13: a get(S, dtype) that runs while a released array of that shape and     *)
(* dtype is in the pool returns an array taken from the pool (one of the       *)
(* released arrays, by identity), not a fresh one.                             *)
C13_Step == \A t \in PoolThreads :
    (PopStep(t) /\ MatchingIdle(t) # {}) => PoolHit(t) \in Range(relOrder)
C13_PoolHit == [][C13_Step]_vars

(* C14: get allocates only if no idle array of the requested shape and dtype   *)
(* is anywhere in the pool, and it leaves the arrays of other shapes and       *)
(* dtypes in the pool.                                                         *)
C14_Step == \A t \in PoolThreads :
    PopStep(t) => /\ PoolHit(t) = NoBuf => MatchingIdle(t) = {}
                  /\ Range(pool) \ MatchingIdle(t) \subseteq Range(pool')
C14_GetFindsMatch == [][C14_Step]_vars

(* C15: the pool never holds more than max_size arrays; a release into a full  *)
(* pool evicts exactly the array released longest ago among those in the pool  *)
(* and keeps the released one; a release into a pool that is not full evicts   *)
(* nothing.                                                                    *)
Pos(s, x) == CHOOSE i \in 1..Len(s) : s[i] = x
C15_Oldest(b) == \A c \in Range(pool) : Pos(relOrder, b) <= Pos(relOrder, c)
C15_Step == \A t \in PoolThreads :
    (tpc[t] = "rel_append" /\ tpc'[t] = "idle")
        => /\ tframe[t] \in Range(pool')
           /\ Len(pool) >= MaxSize
                 => \E b \in Range(pool) : /\ C15_Oldest(b)
                                           /\ Range(pool') = (Range(pool) \ {b}) \cup {tframe[t]}
           /\ Len(pool) < MaxSize => Range(pool') = Range(pool) \cup {tframe[t]}
C15_Bounded == [](Len(pool) <= MaxSize /\ Cardinality(Range(pool)) = Len(pool)) /\ [][C15_Step]_vars
C15_Witness == Len(pool) = MaxSize /\ Len(relOrder) > Len(pool)

(* C16: while every thread releases only arrays it holds, no array is held by  *)
(* two threads, and no array is in the pool while a thread holds it or is      *)
(* being handed it.                                                            *)
C16_Using(t) == held[t] \cup (IF tpc[t] = "get_check" THEN {tframe[t]} ELSE {})
C16_Exclusive ==
    /\ \A t, u \in PoolThreads : t # u => C16_Using(t) \cap C16_Using(u) = {}
    /\ \A t \in PoolThreads : C16_Using(t) \cap Range(pool) = {}
C16_Witness ==
    \E t, u \in PoolThreads :
        /\ tpc[t] = "get_check" /\ Matches(tframe[t], treq[t])
        /\ tpc[u] = "rel_lock"
        /\ tframe[u] # tframe[t]

(* ====================================================================== *)
(* Properties of the rate controller                                      *)
(* ====================================================================== *)
(* the floor of the UI refresh rate the configuration of the tests names *)
MIN_DYNAMIC_UI_FPS == 10

RECURSIVE Streak(_, _)
(* how many of the latest ticks in a row had the verdict v *)
Streak(s, v) == IF s = <<>> \/ s[Len(s)] # v THEN 0 ELSE 1 + Streak(SubSeq(s, 1, Len(s) - 1), v)
TickStep == Len(ticks') = Len(ticks) + 1
(* the target fps of the worker of w, a worker without one counting as 30 fps *)
Target(w) == OrElse(worker_target_fps[w], FallbackBaseFps * FpsDen)
TargetAfter(w) == OrElse(worker_target_fps'[w], FallbackBaseFps * FpsDen)
TargetChanged(w) == worker_target_fps'[w] # worker_target_fps[w] \/ current_target_fps'[w] # current_target_fps[w]

(* C17: a tick lowers a target fps only if it is at least the STRESS_HOLD-th   *)
(* stressed tick in a row, and raises one only if it is at least the           *)
(* RECOVER_HOLD-th non-stressed tick in a row; any other tick, such as an      *)
(* isolated stressed tick or the non-stressed tick after it, changes no rate.  *)
C17_Step ==
    TickStep => \A w \in Widgets :
        /\ TargetAfter(w) < Target(w) => Streak(ticks', TRUE) >= STRESS_HOLD_COUNT
        /\ TargetAfter(w) > Target(w) => Streak(ticks', FALSE) >= RECOVER_HOLD_COUNT
        /\ (Streak(ticks', TRUE) < STRESS_HOLD_COUNT /\ Streak(ticks', FALSE) < RECOVER_HOLD_COUNT)
              => ~TargetChanged(w)
C17_Hysteresis == [][C17_Step]_vars
C17_Witness ==
    /\ Len(ticks) >= 3
    /\ SubSeq(ticks, Len(ticks) - 2, Len(ticks)) = <<FALSE, TRUE, FALSE>>
    /\ \E w \in camera_widgets : Target(w) < BaseOf(w)

(* C18: in a run of stressed ticks, every STRESS_HOLD-th tick of the run lowers *)
(* the target fps of every camera widget's worker by the step, not below       *)
(* MIN_DYNAMIC_FPS, and the stressed ticks in between change no target fps.    *)
C18_Lowered(f) == IF f > MIN_DYNAMIC_FPS * FpsDen
                  THEN Max(MIN_DYNAMIC_FPS * FpsDen, f - DynamicFpsStep * FpsDen) ELSE f
C18_Step ==
    (TickStep /\ Streak(ticks', TRUE) > 0)
        => IF Streak(ticks', TRUE) % STRESS_HOLD_COUNT = 0
           THEN \A w \in camera_widgets : TargetAfter(w) = C18_Lowered(Target(w))
           ELSE \A w \in Widgets : ~TargetChanged(w)
C18_OncePerHold == [][C18_Step]_vars
C18_Witness ==
    /\ Streak(ticks, TRUE) = 2 * STRESS_HOLD_COUNT
    /\ \E w \in camera_widgets :
          /\ base_target_fps[w] = Some(ProfileCaptureFps * FpsDen)
          /\ worker_target_fps[w] = Some((ProfileCaptureFps - 2 * DynamicFpsStep) * FpsDen)
    /\ \E w \in camera_widgets :
          /\ base_target_fps[w] = Some(6 * FpsDen)
          /\ worker_target_fps[w] = Some(MIN_DYNAMIC_FPS * FpsDen)

(* C19: a camera widget attached with a baseline fps of MIN_DYNAMIC_FPS or more *)
(* always has MIN_DYNAMIC_FPS <= target fps <= baseline, in the widget and in  *)
(* its worker.                                                                 *)
C19_Within(x, w) ==
    /\ x # None
    /\ x[1] >= MIN_DYNAMIC_FPS * FpsDen
    /\ x[1] <= base_target_fps[w][1]
C19_Bounds ==
    \A w \in camera_widgets :
        (base_target_fps[w] # None /\ base_target_fps[w][1] >= MIN_DYNAMIC_FPS * FpsDen)
            => C19_Within(current_target_fps[w], w) /\ C19_Within(worker_target_fps[w], w)
C19_Witness ==
    /\ ticks = <<TRUE, TRUE, FALSE, FALSE, FALSE>>
    /\ \E w \in camera_widgets :
          /\ base_target_fps[w] = Some(6 * FpsDen)
          /\ worker_target_fps[w] = base_target_fps[w]

(* C20: the tick that completes a stress hold also lowers the UI refresh rate  *)
(* of every camera widget that is above MIN_DYNAMIC_UI_FPS, not below that     *)
(* floor, and the tick that completes a recover hold raises it again if it is  *)
(* below what the widget started with.                                         *)
C20_Step ==
    TickStep => \A w \in camera_widgets :
        /\ (Streak(ticks', TRUE) > 0 /\ Streak(ticks', TRUE) % STRESS_HOLD_COUNT = 0
               /\ ui_render_fps[w] > MIN_DYNAMIC_UI_FPS)
              => (ui_render_fps'[w] < ui_render_fps[w] /\ ui_render_fps'[w] >= MIN_DYNAMIC_UI_FPS)
        /\ (Streak(ticks', FALSE) > 0 /\ Streak(ticks', FALSE) % RECOVER_HOLD_COUNT = 0
               /\ ui_render_fps[w] < AppliedUiFps(ProfileUiFps))
              => ui_render_fps'[w] > ui_render_fps[w]
C20_UiRateFollows == [][C20_Step]_vars

(* C21: whenever a check interval ends that completes a stress hold (the       *)
(* STRESS_HOLD-th stressed interval in a row, and every STRESS_HOLD-th after   *)
(* it), every camera widget's worker has its target fps lowered by the step,   *)
(* not below MIN_DYNAMIC_FPS: the widgets of startup and those attached        *)
(* later, also when every slot was a placeholder at startup.                   *)
IntervalEnds == Len(ticks') + Len(missed') = Len(ticks) + Len(missed) + 1
StressedRun == Streak(ticks', TRUE) + Streak(missed', TRUE)
C21_Step ==
    (IntervalEnds /\ StressedRun > 0 /\ StressedRun % STRESS_HOLD_COUNT = 0)
        => \A w \in camera_widgets : TargetAfter(w) = C18_Lowered(Target(w))
C21_EveryWorkerAdjusted == [][C21_Step]_vars

(* ====================================================================== *)
(* Properties of the slots and of rescan_and_attach                        *)
(* ====================================================================== *)
(* the UI thread enters test_single_camera for the head of candidates *)
ProbeCall == rescan_pc = "loop" /\ rescan_pc' = "probing"
(* the UI thread binds the head of candidates to a placeholder *)
AttachStep == rescan_pc = "attach" /\ rescan_pc' = "append"
(* the slots whose index is in camera_widgets, and those in placeholder_slots *)
Occupied == camera_widgets
Placeholders == Elems(placeholder_slots)
(* rescan_and_attach is not between popping a placeholder and appending it *)
SlotsSettled == main_pc # "startup" /\ rescan_pc # "append"

(* C22: once main has created the slots there are exactly CAMERA_SLOT_COUNT    *)
(* of them, each in camera_widgets with a started worker or in                 *)
(* placeholder_slots without one, never in both, whenever rescan_and_attach is *)
(* not in the middle of moving one; startup gives the first                    *)
(* min(N, len(working_cameras)) slots the working cameras in list order and    *)
(* makes the rest placeholders.                                                *)
C22_Partition ==
    SlotsSettled =>
        /\ Occupied \cap Placeholders = {}
        /\ Occupied \cup Placeholders = Widgets
        /\ Cardinality(Occupied) + Len(placeholder_slots) = CAMERA_SLOT_COUNT
        /\ \A w \in Occupied :
              workers_started[w] >= 1 /\ capture_enabled[w] /\ camera_stream_link[w] # None
        /\ \A w \in Placeholders :
              workers_started[w] = 0 /\ ~capture_enabled[w] /\ camera_stream_link[w] = None
C22_StartupStep ==
    (main_pc = "startup" /\ main_pc' = "running") =>
        \A w \in Widgets :
            IF w <= Min(CAMERA_SLOT_COUNT, Len(working_cameras))
            THEN w \in camera_widgets' /\ camera_stream_link'[w] = Some(working_cameras[w])
            ELSE w \in Elems(placeholder_slots')
InCooldown(i) ==
    failed_indexes[i] # None /\ rnow - failed_indexes[i][1] < FAILED_CAMERA_COOLDOWN_SEC
C23_Step == (ProbeCall \/ AttachStep) => ~InCooldown(Head(candidates))
C23_CooldownRespected == [][C23_Step]_vars

(* C24: rescan_and_attach never probes or attaches an index that is in         *)
(* active_indexes or bound to a camera widget; no two camera widgets are bound *)
(* to the same index, and no widget has had more than one worker started.      *)
BoundIndexes == {camera_stream_link[w][1] : w \in {x \in Widgets : camera_stream_link[x] # None}}
C24_Distinct ==
    /\ \A v, w \in Widgets :
          (v # w /\ camera_stream_link[v] # None /\ camera_stream_link[w] # None)
              => camera_stream_link[v] # camera_stream_link[w]
    /\ \A w \in Widgets : workers_started[w] <= 1
    /\ BoundIndexes \subseteq active_indexes \cup
          (IF rescan_pc = "append" THEN {Head(candidates)} ELSE {})
C24_Step ==
    (ProbeCall \/ AttachStep) =>
        (Head(candidates) \notin active_indexes /\ Head(candidates) \notin BoundIndexes)
C24_NoDoubleAttach == []C24_Distinct /\ [][C24_Step]_vars
C24_Witness ==
    /\ main_pc = "running" /\ rescan_pc = "append"
    /\ Cardinality(camera_widgets) = 2
    /\ \A i \in active_indexes : dev[i] = "ok"

(* C29: the UI thread is never inside test_single_camera: the probes of a      *)
(* rescan tick run on another thread, and the UI thread stays free to render.  *)
UIThreadProbing == main_pc = "running" /\ rescan_pc = "probing"
C29_ProbesOffUIThread == ~UIThreadProbing

(* C30: when the process has exited on a termination signal (SIGINT or        *)
(* SIGTERM), stop() has been called on the worker of every widget that has a   *)
(* started worker, attached at startup or by rescan_and_attach.                *)
C30_AllWorkersStopped ==
    main_pc = "exited" => \A w \in Widgets : workers_started[w] > 0 => w \in stop_called

(* ====================================================================== *)
(* Properties of the discovery                                             *)
(* ====================================================================== *)
AppendedTo(s, t, i) == t = Append(s, i)

(* C25: find_working_cameras returns only indexes that are in the list of the  *)
(* first pass and in the list of the second pass, and an index enters either   *)
(* list only by a probe that could open the device at that moment: an index    *)
(* that passed the first pass after a kill and fails the second is not         *)
(* returned.                                                                   *)
C25_Returned ==
    fwc_pc = "done" => Elems(returned) \subseteq (Elems(working) \cap Elems(final_working))
C25_Step ==
    \A i \in Idx :
        /\ AppendedTo(working, working', i) => (CanOpen(i) /\ probe_pc[i] \in {"try", "retry"})
        /\ AppendedTo(final_working, final_working', i)
              => (CanOpen(i) /\ probe_pc[i] = "try2" /\ i \in Elems(working))
C25_BothPasses == []C25_Returned /\ [][C25_Step]_vars
C25_Witness ==
    /\ fwc_pc = "done"
    /\ returned # <<>>
    /\ \E i \in Elems(working) \ Elems(returned) : kill_result[i] = Some(TRUE)

(* C26: the list find_working_cameras returns is in ascending order of index,  *)
(* in whatever order the probes of the pool complete.                          *)
C26_Ascending == fwc_pc = "done" => returned = Ascending(Elems(returned))

(* C27: with KILL_DEVICE_HOLDERS off, discovery queries no process listing and *)
(* no process is signalled or killed.                                          *)
C27_FlagRespected == ~kill_flag => (~listed /\ signalled = {})

(* C28: no signal of kill_device_holders ever reaches the own pid, whatever    *)
(* the listing reports.                                                        *)
C28_NeverSelf == OwnPid \notin signalled

(* ====================================================================== *)
(* Properties of the capture worker: failures and status events            *)
(* ====================================================================== *)
(* _handle_capture_failure runs: grab or retrieve reported a failure *)
FailureStep == wPc \in {"grab", "retrieve_wait"} /\ wPc' = "loop"
(* status_changed.emit(True) and status_changed.emit(False) *)
OnlineEmitted == wPc = "ensure_check" /\ wPc' = "grab"
OfflineEmitted == FailureStep
FrameEmitted == wPc = "emit" /\ wPc' = "loop"

(* C31: a failed grab or retrieve leaves cap None and the status offline and   *)
(* emits no frame; offline is emitted by such a step only; and from then until *)
(* the next successful open the worker holds no opened handle, so each         *)
(* iteration it begins calls _open_capture.                                    *)
C31_Step ==
    /\ FailureStep => (cap' = "none" /\ status' = "offline" /\ UNCHANGED <<fresh, sinceFrame, sinceEmit>>)
    /\ (status' = "offline" /\ status # "offline") => FailureStep
    /\ (wPc = "ensure" /\ status = "offline" /\ wPc' # wPc) => wPc' = "open_wait"
C31_Reopening == (status = "offline" /\ wPc \in {"loop", "ensure"}) => cap # "open"
C31_FailurePath == []C31_Reopening /\ [][C31_Step]_vars
C31_Witness == wPc = "open_wait" /\ status = "offline" /\ cap = "none" /\ running /\ fresh

(* C37: the status events of a worker alternate, starting with online: online  *)
(* is never emitted when the last event was online, and offline only when the  *)
(* last event was online.                                                      *)
C37_Step ==
    /\ OnlineEmitted => status # "online"
    /\ OfflineEmitted => status = "online"
C37_Alternates == [][C37_Step]_vars

(* ====================================================================== *)
(* Properties of the rescan timer callback                                 *)
(* ====================================================================== *)
(* failed_indexes.get(idx) is not None *)
HasRecord(i) == failed_indexes[i] # None
(* test_single_camera returns None to rescan_and_attach *)
ProbeFails == rescan_pc = "probing" /\ rescan_pc' = "loop"
(* lines 1396-1398 run for the slot popped at line 1393 *)
AppendStep == rescan_pc = "append" /\ rescan_pc' = "loop"
StartupStep == main_pc = "startup" /\ main_pc' = "running"
RescanTickStep == rescan_pc = "idle" /\ rescans' = rescans + 1
(* the slots are created in the order of their number *)
Oldest(s) == CHOOSE w \in Elems(s) : \A v \in Elems(s) : w <= v

(* C32: a successful rescan probe pops the placeholder created first, starts   *)
(* one worker in it for the probed index with the profile's capture fps as     *)
(* base_target_fps and current_target_fps, and then adds the slot to           *)
(* camera_widgets and the index to active_indexes; the placeholders that       *)
(* remain were all created after every slot that holds a camera.               *)
C32_Step ==
    /\ AttachStep =>
          /\ rslot' = Oldest(placeholder_slots)
          /\ Elems(placeholder_slots') = Elems(placeholder_slots) \ {rslot'}
          /\ camera_stream_link'[rslot'] = Some(Head(candidates))
          /\ base_target_fps'[rslot'] = Some(ProfileCaptureFps * FpsDen)
          /\ current_target_fps'[rslot'] = Some(ProfileCaptureFps * FpsDen)
          /\ worker_target_fps'[rslot'] = Some(ProfileCaptureFps * FpsDen)
          /\ capture_enabled'[rslot'] /\ workers_started'[rslot'] = 1
          /\ \A w \in Widgets \ {rslot'} :
                /\ camera_stream_link'[w] = camera_stream_link[w]
                /\ workers_started'[w] = workers_started[w]
                /\ base_target_fps'[w] = base_target_fps[w]
    /\ AppendStep =>
          /\ camera_widgets' = camera_widgets \cup {rslot}
          /\ active_indexes' = active_indexes \cup {Head(candidates)}
          /\ camera_stream_link[rslot] = Some(Head(candidates))
C32_CreationOrder ==
    /\ placeholder_slots = Ascending(Elems(placeholder_slots))
    /\ \A w \in {v \in Widgets : workers_started[v] > 0} : \A q \in Elems(placeholder_slots) : w < q
C32_FifoPromotion == []C32_CreationOrder /\ [][C32_Step]_vars
C32_Witness ==
    /\ main_pc = "running" /\ rescan_pc = "loop"
    /\ Len(working_cameras) = 0
    /\ camera_widgets = {1, 2}
    /\ placeholder_slots = <<3>>
    /\ Cardinality(active_indexes) = 2

(* C33: no index is in active_indexes and has an entry in failed_indexes; a    *)
(* failed rescan probe sets the entry of the probed index to the timestamp the *)
(* tick took at its start; after startup an entry changes only for the index   *)
(* being probed or attached.                                                   *)
C33_Disjoint == \A i \in active_indexes : ~HasRecord(i)
C33_Step ==
    /\ ProbeFails => failed_indexes'[Head(candidates)] = Some(rnow)
    /\ RescanTickStep => (rescan_pc' # "idle" => rnow' = clock')
    /\ ~StartupStep =>
          \A i \in Idx :
              failed_indexes'[i] # failed_indexes[i] =>
                  /\ rescan_pc \in {"probing", "append"}
                  /\ candidates # <<>> /\ i = Head(candidates)
    /\ (rescan_pc # "idle" /\ rescan_pc' # "idle") => rnow' = rnow
C33_Bookkeeping == []C33_Disjoint /\ [][C33_Step]_vars
C33_Witness ==
    /\ main_pc = "running" /\ rescan_pc = "idle"
    /\ \E i \in active_indexes \ Elems(working_cameras) : TRUE
    /\ \E j \in Idx : HasRecord(j) /\ failed_indexes[j] = Some(rnow) /\ rnow > clock - RescanIntervalSec * 2

(* C34: a tick that finds no placeholder enumerates and probes nothing; a      *)
(* probe and a pop happen only while a placeholder is left; after startup the  *)
(* placeholder list only shrinks, by exactly the popped slot at each           *)
(* attachment, so a tick attaches at most as many cameras as there were        *)
(* placeholders when it started.                                               *)
C34_Step ==
    /\ (RescanTickStep /\ placeholder_slots = <<>>) =>
          (rescan_pc' = "idle" /\ UNCHANGED <<candidates, rnow, failed_indexes, active_indexes>>)
    /\ ProbeCall => placeholder_slots # <<>>
    /\ AttachStep => (placeholder_slots # <<>> /\ Len(placeholder_slots') = Len(placeholder_slots) - 1)
    /\ (~StartupStep /\ ~AttachStep) => placeholder_slots' = placeholder_slots
C34_StopsWhenFull == [][C34_Step]_vars
C34_Witness ==
    /\ main_pc = "running" /\ rescan_pc = "idle"
    /\ placeholder_slots = <<>> /\ candidates = <<>>
    /\ working_cameras = <<>>
    /\ \E i \in Idx : dev[i] = "ok" /\ i \notin active_indexes /\ ~HasRecord(i)
    /\ rescans >= 2

(* C39: whenever rescan_and_attach is not between its pop and its append,      *)
(* active_indexes is the set of the indexes bound to the camera widgets.       *)
C39_ActiveIsBound ==
    SlotsSettled => active_indexes = {camera_stream_link[w][1] : w \in Occupied}

(* ====================================================================== *)
(* Properties of a probe and of kill_device_holders                        *)
(* ====================================================================== *)
InKill == p_pc \in {"kill_enter", "lsof", "fuser", "discard", "term", "sigkill", "kill_return"}
IsProbe == call.entry = "test_single_camera"
(* the kinds of the entries of sent at positions K *)
SentKinds(K) == {sent[k][1] : k \in K}
Logged == 1..Len(sent)
Before(k) == 1..(k - 1)
(* an entry was appended to sent *)
Sends(kind) == Len(sent') = Len(sent) + 1 /\ sent'[Len(sent')][1] = kind
(* the listing kill_device_holders went on with, without its own pid *)
FoundOthers ==
    IF fuser_out # None THEN DiscardOwn(fuser_out[1])
    ELSE IF lsof_out # None THEN DiscardOwn(lsof_out[1])
    ELSE {}

(* C35: a probe with allow_kill=False, as the second pass and the rescan make   *)
(* it, never enters kill_device_holders, lists no process and sends no signal;  *)
(* a probe calls try_open at most retries times, plus post_kill_retries times   *)
(* once kill_device_holders has returned True; it returns the index exactly     *)
(* when one try_open succeeded, and a try_open succeeds only on a device that   *)
(* opens and grabs.                                                             *)
C35_NoKill ==
    /\ call.site \in {"second_pass", "rescan"} => ~call.allow_kill
    /\ (IsProbe /\ ~call.allow_kill) =>
          /\ ~InKill /\ killed = None
          /\ sent = <<>> /\ lsof_out = None /\ fuser_out = None
C35_Attempts ==
    IsProbe =>
        /\ attempts <= call.retries + (IF killed = Some(TRUE) THEN call.post_kill_retries ELSE 0)
        /\ p_pc = "done" => (p_result = "index" <=> opened)
        /\ p_pc # "done" => (p_result = "pending" /\ ~opened)
C35_Step ==
    /\ (opened' /\ ~opened) => (TryOpenOk /\ attempts' = attempts + 1)
    /\ (IsProbe /\ ~call.allow_kill) => p_holders' \subseteq p_holders
    /\ (IsProbe /\ ~call.allow_kill /\ p_holders' # p_holders) => UNCHANGED <<p_pc, attempts>>
C35_Probe == [](C35_NoKill /\ C35_Attempts) /\ [][C35_Step]_vars
C35_Witness ==
    /\ call.site = "rescan" /\ p_pc = "done"
    /\ p_result = "None" /\ attempts = call.retries
    /\ "foreign" \in p_holders /\ p_dev = "ok"

(* C36: inside kill_device_holders the fuser listing is made only after an      *)
(* empty lsof listing; os.kill(pid, SIGKILL) comes only after the SIGTERM loop  *)
(* has ended and the grace wait is over, and only for a pid that is alive;      *)
(* after a PermissionError the escalation is run and no SIGTERM follows; a      *)
(* SIGTERM left out without an escalation was for a process already gone; the   *)
(* function returns True exactly when the listing showed a pid other than its   *)
(* own.                                                                         *)
C36_Order ==
    /\ fuser_out # None => lsof_out = Some({})
    /\ \A k \in Logged :
          /\ sent[k][1] = "SIGKILL" => "sleep" \in SentKinds(Before(k))
          /\ sent[k][1] = "SIGTERM" => SentKinds(Before(k)) \subseteq {"SIGTERM"}
          /\ sent[k][1] = "escalate" => SentKinds(Before(k)) \subseteq {"SIGTERM"}
    /\ killed # None => killed = Some(FoundOthers # {})
C36_Step ==
    /\ Sends("SIGKILL") => (p_pc = "sigkill" /\ sent'[Len(sent')][2] \in p_holders \cap p_pids)
    /\ Sends("SIGTERM") => (p_pc = "term" /\ sent'[Len(sent')][2] \in p_holders \cap p_pids)
    /\ Sends("escalate") => (p_pc = "term" /\ ~MaySignal(sent'[Len(sent')][2]) /\ p_todo' = {})
    /\ (p_pc = "term" /\ p_pc' = "term" /\ p_todo' # p_todo /\ sent' = sent) =>
          \E pid \in p_todo \ p_todo' : pid \notin p_holders
C36_KillOrdering == []C36_Order /\ [][C36_Step]_vars
C36_Witness ==
    /\ call.entry = "kill_device_holders" /\ p_pc = "done"
    /\ killed = Some(TRUE) /\ fuser_out # None
    /\ SentKinds(Logged) = {"SIGTERM", "escalate", "sleep", "SIGKILL"}

(* ====================================================================== *)
(* Properties of the prototype worker                                      *)
(* ====================================================================== *)
(* C38: whenever a reconnect of the prototype worker has succeeded, the worker  *)
(* goes on to call read() on the reopened handle.                               *)
C38_ReadsAfterReconnect == q_fresh ~> (q_pc = "read")

(* ====================================================================== *)
(* Properties of the rate controller: recovery                             *)
(* ====================================================================== *)
(* C40: once every tick is non-stressed, the target fps of every camera widget  *)
(* that has a baseline, in the widget and in its worker, becomes the baseline   *)
(* and stays it; a widget's target is never above its baseline.                 *)
HasBaseline(w) == w \in camera_widgets /\ base_target_fps[w] # None
C40_AtBaseline ==
    \A w \in Widgets : HasBaseline(w) =>
        (current_target_fps[w] = base_target_fps[w] /\ worker_target_fps[w] = base_target_fps[w])
C40_NoOvershoot ==
    \A w \in Widgets : HasBaseline(w) =>
        (current_target_fps[w][1] <= Max(base_target_fps[w][1], MIN_DYNAMIC_FPS * FpsDen)
         /\ worker_target_fps[w][1] <= Max(base_target_fps[w][1], MIN_DYNAMIC_FPS * FpsDen))
C40_Recovers == []C40_NoOvershoot /\ <>[]C40_AtBaseline
C40_Witness ==
    /\ Len(ticks) = MaxTicks
    /\ SubSeq(ticks, MaxTicks - 1, MaxTicks) = <<TRUE, TRUE>>
    /\ \E w \in camera_widgets :
          /\ base_target_fps[w] = Some(6 * FpsDen)
          /\ worker_target_fps[w] = base_target_fps[w]
          /\ current_target_fps[w] = base_target_fps[w]
    /\ C40_AtBaseline
====
